---- MODULE Spec2Model ----
(***************************************************************************)
(* A model of the audio analysis engine: the YIN pitch detector, the       *)
(* volume estimator, the BPM detector, the note mapper and the             *)
(* AudioAnalyzer facade with its options, its pitch detector object and    *)
(* its shared AnalyserNode.                                                *)
(*                                                                         *)
(* Numbers.  A JavaScript number is modelled as an exact extended          *)
(* rational <<n, d>> in lowest terms with d >= 0: d > 0 is the finite      *)
(* value n/d, <<1,0>> is +Infinity, <<-1,0>> is -Infinity and <<0,0>> is   *)
(* NaN.  Arithmetic and comparison follow IEEE-754 on these values (NaN    *)
(* compares false with everything, x/0 is an infinity, 0/0 is NaN);        *)
(* rounding to float32/float64 and the sign of zero are not modelled.      *)
(* Samples are integers (full scale is 1), array indices are integers.     *)
(* A typed array is a sequence; index i of the code is element i+1.        *)
(* A value that may be null is a sequence: <<>> is null, <<v>> is v.       *)
(***************************************************************************)
EXTENDS Integers, Sequences, FiniteSets, TLC

(***************************************************************************)
(* Bounds of the model.                                                    *)
(***************************************************************************)
\* audioContext.sampleRate and audioBuffer.sampleRate (Hz), scaled down so
\* that the lags of a detectable pitch fit windows that can be enumerated.
SampleRate == 100
\* The longest sample window the pure-function specifications enumerate.
MaxLen == 8

(***************************************************************************)
(* Extended rational arithmetic (JavaScript numbers).                      *)
(***************************************************************************)
Abs(x) == IF x < 0 THEN -x ELSE x

Min2(a, b) == IF a < b THEN a ELSE b

Max2(a, b) == IF a > b THEN a ELSE b

Sign(x) == IF x > 0 THEN 1 ELSE IF x < 0 THEN -1 ELSE 0

RECURSIVE Gcd(_, _)
Gcd(a, b) == IF b = 0 THEN a ELSE Gcd(b, a % b)

RNorm(n, d) ==
  IF d = 0 THEN <<Sign(n), 0>>
  ELSE LET g == Gcd(Abs(n), Abs(d))
           s == IF d < 0 THEN -1 ELSE 1
       IN  <<(s * n) \div g, (s * d) \div g>>

NaN == <<0, 0>>

Infinity == <<1, 0>>

R(i) == <<i, 1>>

IsNaN(a) == a = NaN

IsFinite(a) == a[2] > 0

\* The products are taken with the common factors divided out first, which
\* keeps them inside the 32-bit integers.
RAdd(a, b) ==
  IF a[2] = 0 \/ b[2] = 0 THEN RNorm(a[1] * b[2] + b[1] * a[2], 0)
  ELSE LET g == Gcd(a[2], b[2])
       IN  RNorm(a[1] * (b[2] \div g) + b[1] * (a[2] \div g), (a[2] \div g) * b[2])

RNeg(a) == <<-a[1], a[2]>>

RSub(a, b) == RAdd(a, RNeg(b))

RMul(a, b) ==
  IF a[2] = 0 \/ b[2] = 0 THEN RNorm(a[1] * b[1], 0)
  ELSE LET g1 == Gcd(Abs(a[1]), b[2])
           g2 == Gcd(Abs(b[1]), a[2])
       IN  RNorm((a[1] \div g1) * (b[1] \div g2), (a[2] \div g2) * (b[2] \div g1))

\* 1 / b
RInv(b) == RNorm(b[2], b[1])

RDiv(a, b) == RMul(a, RInv(b))

\* a < b of JavaScript: false when either side is NaN.
RECURSIVE FracLt(_, _, _, _)
\* n1/d1 < n2/d2 for d1, d2 > 0, by whole parts and then by the reciprocals
\* of the fractional parts: no product is formed.
FracLt(n1, d1, n2, d2) ==
  IF n1 \div d1 # n2 \div d2 THEN n1 \div d1 < n2 \div d2
  ELSE IF n2 % d2 = 0 THEN FALSE
  ELSE IF n1 % d1 = 0 THEN TRUE
  ELSE FracLt(d2, n2 % d2, d1, n1 % d1)

RLt(a, b) ==
  /\ ~IsNaN(a)
  /\ ~IsNaN(b)
  /\ IF a[2] = 0 \/ b[2] = 0 THEN a # b /\ (a[2] = 0 => a[1] < 0) /\ (b[2] = 0 => b[1] > 0)
     ELSE FracLt(a[1], a[2], b[1], b[2])

RGt(a, b) == RLt(b, a)

RAbs(a) == <<Abs(a[1]), a[2]>>

\* Math.min(a, b): NaN when either is NaN.
RMin(a, b) == IF IsNaN(a) \/ IsNaN(b) THEN NaN ELSE IF RLt(b, a) THEN b ELSE a

\* Math.floor of the quotient of two positive integers.
FloorDiv(a, b) == a \div b

\* Math.ceil of the quotient of two positive integers.
CeilDiv(a, b) == (a + b - 1) \div b

\* The % of JavaScript on integers: the sign of the dividend.
JSRem(a, b) == IF a >= 0 THEN a % b ELSE -((-a) % b)

\* Math.floor(a / b) for an integer a of any sign and b > 0.
JSFloorInt(a, b) == IF a >= 0 THEN a \div b ELSE -(((-a) + b - 1) \div b)

\* Truthiness of a number: 0 and NaN are falsy.
Truthy(a) == ~IsNaN(a) /\ a # R(0)

(***************************************************************************)
(* Typed arrays.                                                           *)
(***************************************************************************)
\* arr[i] read in a numeric comparison: undefined (out of range) acts as NaN.
At(arr, i) == IF i >= 0 /\ i < Len(arr) THEN arr[i + 1] ELSE NaN

\* Array.prototype.slice / TypedArray.prototype.slice(start, end).
Slice(arr, start, end) ==
  LET len == Len(arr)
      from == IF start < 0 THEN Max2(len + start, 0) ELSE Min2(start, len)
      to == IF end < 0 THEN Max2(len + end, 0) ELSE Min2(end, len)
  IN  IF to <= from THEN <<>> ELSE SubSeq(arr, from + 1, to)

\* The array a function on 1..n describes, with every element computed.
Arr(f) == SubSeq(f, 1, Len(f))

\* e evaluated after v has been: keeps the evaluation of a long loop shallow.
After(v, e) == IF v = v THEN e ELSE e

RECURSIVE SumRange(_, _, _)
\* f[lo] + ... + f[hi - 1], summed by halves
SumRange(f, lo, hi) ==
  IF hi <= lo THEN 0
  ELSE IF hi = lo + 1 THEN f[lo]
  ELSE SumRange(f, lo, (lo + hi) \div 2) + SumRange(f, (lo + hi) \div 2, hi)

\* sum of f[0] .. f[n-1] for a function f on 0..n-1
SumTo(f, n) == SumRange(f, 0, n)

Null == <<>>

Some(v) == <<v>>

(***************************************************************************)
(* Constants of the program.                                               *)
(***************************************************************************)
NOTE_NAMES ==
  << <<"C">>, <<"C", "#">>, <<"D">>, <<"D", "#">>, <<"E">>, <<"F">>,
     <<"F", "#">>, <<"G">>, <<"G", "#">>, <<"A">>, <<"A", "#">>, <<"B">> >>

(***************************************************************************)
(* YINDetector                                                             *)
(***************************************************************************)
\* new YINDetector(sampleRate, threshold, minFrequency, maxFrequency); id is
\* the identity of the object (the number of detectors built before it).
YINDetector(id, sampleRate, threshold, minFrequency, maxFrequency) ==
  [id |-> id, sampleRate |-> sampleRate, threshold |-> threshold,
   minFrequency |-> minFrequency, maxFrequency |-> maxFrequency]

\* d[tau] = sum over j < bufferSize - maxLag of (x[j] - x[j+tau])^2, in a
\* Float32Array(maxLag).  maxLag may be bufferSize / 2 with bufferSize odd,
\* so it is carried as maxLag2 = 2 * maxLag: the array has floor(maxLag)
\* entries, a write past its end is dropped, and j < bufferSize - maxLag
\* is 2j < 2 * bufferSize - maxLag2.
differenceFunction(buffer, bufferSize, maxLag2) ==
  LET n == CeilDiv(2 * bufferSize - maxLag2, 2)
  IN  Arr([t \in 1..(maxLag2 \div 2) |->
             SumTo([j \in 0..(n - 1) |->
                      (buffer[j + 1] - buffer[j + t]) * (buffer[j + 1] - buffer[j + t])],
                   n)])

\* runningSum after the loop body for tau: difference[1] + ... + difference[tau]
RunningSum(difference, tau) == SumRange(difference, 2, tau + 2)

\* A normalisation that guards the zero running sum by storing 0.
cumulativeMeanNormalizedDifferenceGuarded(difference, maxLag2) ==
  Arr([t \in 1..(maxLag2 \div 2) |->
         IF t = 1 THEN R(1)
         ELSE IF RunningSum(difference, t - 1) = 0 THEN R(0)
         ELSE RDiv(R(difference[t]), RDiv(R(RunningSum(difference, t - 1)), R(t - 1)))])

\* cmndf[0] = 1; cmndf[tau] = difference[tau] / (runningSum / tau)
cumulativeMeanNormalizedDifference(difference, maxLag2) ==
  Arr([t \in 1..(maxLag2 \div 2) |->
         IF t = 1 THEN R(1)
         ELSE RDiv(R(difference[t]), RDiv(R(RunningSum(difference, t - 1)), R(t - 1)))])

RECURSIVE LocalMinimum(_, _, _)
\* while (tau + 1 < maxLag && cmndf[tau + 1] < cmndf[tau]) tau++
LocalMinimum(cmndf, tau, maxLag2) ==
  IF 2 * (tau + 1) < maxLag2 /\ RLt(At(cmndf, tau + 1), At(cmndf, tau))
  THEN LocalMinimum(cmndf, tau + 1, maxLag2)
  ELSE tau

RECURSIVE ThresholdScan(_, _, _, _)
\* the outer while loop of absoluteThreshold, entered at tau
ThresholdScan(cmndf, tau, maxLag2, threshold) ==
  IF ~(2 * tau < maxLag2) THEN -1
  ELSE IF RLt(At(cmndf, tau), threshold) THEN LocalMinimum(cmndf, tau, maxLag2)
  ELSE ThresholdScan(cmndf, tau + 1, maxLag2, threshold)

RECURSIVE ThresholdScanFirst(_, _, _, _)
\* A scan that returns the first lag below the threshold as it is.
ThresholdScanFirst(cmndf, tau, maxLag2, threshold) ==
  IF ~(2 * tau < maxLag2) THEN -1
  ELSE IF RLt(At(cmndf, tau), threshold) THEN tau
  ELSE ThresholdScanFirst(cmndf, tau + 1, maxLag2, threshold)

\* A threshold search without the descent to the local minimum.
absoluteThresholdFirst(cmndf, minLag, maxLag2, threshold) ==
  ThresholdScanFirst(cmndf, minLag, maxLag2, threshold)

absoluteThreshold(cmndf, minLag, maxLag2, threshold) ==
  ThresholdScan(cmndf, minLag, maxLag2, threshold)

\* |denom| < 1e-10: the model's rationals have small denominators, so a
\* non-zero denom is never that small.
parabolicInterpolation(cmndf, tau) ==
  IF tau <= 0 \/ tau >= Len(cmndf) - 1 THEN R(tau)
  ELSE LET alpha == At(cmndf, tau - 1)
           beta == At(cmndf, tau)
           gamma == At(cmndf, tau + 1)
           denom == RMul(R(2), RSub(RSub(RMul(R(2), beta), alpha), gamma))
       IN  IF denom = R(0) THEN R(tau)
           ELSE RAdd(R(tau), RDiv(RSub(gamma, alpha), denom))

\* minLag of detect
MinLagOf(det) == FloorDiv(det.sampleRate, det.maxFrequency)

\* twice the maxLag of detect for a buffer of bufferSize samples
MaxLag2Of(det, bufferSize) ==
  Min2(2 * FloorDiv(det.sampleRate, det.minFrequency), bufferSize)

\* the cmndf array detect computes for buffer (steps 1 and 2)
CmndfOf(det, buffer) ==
  cumulativeMeanNormalizedDifference(
    differenceFunction(buffer, Len(buffer), MaxLag2Of(det, Len(buffer))),
    MaxLag2Of(det, Len(buffer)))

\* the lag detect gets from absoluteThreshold for buffer (step 3)
LagOf(det, buffer) ==
  absoluteThreshold(CmndfOf(det, buffer), MinLagOf(det), MaxLag2Of(det, Len(buffer)),
                    det.threshold)

\* YINDetector.detect: Null, or Some([frequency, confidence, tau]).
YINDetect(det, buffer) ==
  LET bufferSize == Len(buffer)
      minLag == FloorDiv(det.sampleRate, det.maxFrequency)
      maxLag2 == Min2(2 * FloorDiv(det.sampleRate, det.minFrequency), bufferSize)
      difference == differenceFunction(buffer, bufferSize, maxLag2)
      cmndf == cumulativeMeanNormalizedDifference(difference, maxLag2)
      tau == absoluteThreshold(cmndf, minLag, maxLag2, det.threshold)
  IN  IF tau = -1 THEN Null
      ELSE LET betterTau == parabolicInterpolation(cmndf, tau)
               frequency == RDiv(R(det.sampleRate), betterTau)
               confidence == RSub(R(1), At(cmndf, tau))
           IN  IF RLt(frequency, R(det.minFrequency))
                    \/ RGt(frequency, R(det.maxFrequency))
               THEN Null
               ELSE Some([frequency |-> frequency, confidence |-> confidence])

(***************************************************************************)
(* detectPitchAutocorrelation                                              *)
(***************************************************************************)
\* autocorr[lag] = sum over i < bufferSize - lag of data[i] * data[i + lag],
\* in a Float32Array(maxLag); maxLag is carried doubled, as in the detector
Autocorr(data, bufferSize, maxLag2) ==
  Arr([l \in 1..(maxLag2 \div 2) |->
         R(SumTo([i \in 0..(bufferSize - l) |-> data[i + 1] * data[i + l]],
                 bufferSize - l + 1))])

\* the condition of the if in the search loop, with maxVal still -Infinity
IsSignificantPeak(autocorr, lag, threshold) ==
  /\ RGt(At(autocorr, lag), threshold)
  /\ RGt(At(autocorr, lag), At(autocorr, lag - 1))
  /\ RGt(At(autocorr, lag), At(autocorr, lag + 1))
  /\ RGt(At(autocorr, lag), RNeg(Infinity))

\* peakOffset = (alpha - gamma) / (2 * (alpha - 2 * beta + gamma))
PeakOffset(autocorr, lag) ==
  LET alpha == At(autocorr, lag - 1)
      beta == At(autocorr, lag)
      gamma == At(autocorr, lag + 1)
  IN  RDiv(RSub(alpha, gamma),
           RMul(R(2), RAdd(RSub(alpha, RMul(R(2), beta)), gamma)))

RECURSIVE PeakScan(_, _, _, _)
\* the for loop entered at lag: the lag it breaks at, or -1
PeakScan(autocorr, lag, maxLag2, threshold) ==
  IF ~(2 * lag < maxLag2 - 2) THEN -1
  ELSE IF IsSignificantPeak(autocorr, lag, threshold) THEN lag
  ELSE PeakScan(autocorr, lag + 1, maxLag2, threshold)

RECURSIVE PeakScanHighest(_, _, _, _, _)
\* A loop without the break: each later peak above the one held replaces it.
PeakScanHighest(autocorr, lag, maxLag2, threshold, best) ==
  IF ~(2 * lag < maxLag2 - 2) THEN best
  ELSE IF IsSignificantPeak(autocorr, lag, threshold)
            /\ (best = -1 \/ RGt(At(autocorr, lag), At(autocorr, best)))
  THEN PeakScanHighest(autocorr, lag + 1, maxLag2, threshold, lag)
  ELSE PeakScanHighest(autocorr, lag + 1, maxLag2, threshold, best)

\* A search that returns the highest significant peak of the range.
PeakSearchHighest(autocorr, minLag, maxLag2, threshold) ==
  PeakScanHighest(autocorr, minLag, maxLag2, threshold, -1)

\* the lag whose pass of the loop sets maxVal and bestLag, or -1
PeakSearch(autocorr, minLag, maxLag2, threshold) ==
  PeakScan(autocorr, minLag, maxLag2, threshold)

\* detectPitchAutocorrelation(data, sampleRate, minFreq, maxFreq): Null, or
\* Some([frequency, confidence])
detectPitchAutocorrelation(data, sampleRate, minFreq, maxFreq) ==
  LET bufferSize == Len(data)
      minLag == FloorDiv(sampleRate, maxFreq)
      maxLag2 == Min2(2 * FloorDiv(sampleRate, minFreq), bufferSize)
      autocorr == Autocorr(data, bufferSize, maxLag2)
      threshold == RMul(<<1, 2>>, At(autocorr, 0))
      lag == PeakSearch(autocorr, minLag, maxLag2, threshold)
      maxVal == IF lag = -1 THEN RNeg(Infinity) ELSE At(autocorr, lag)
      bestLag == IF lag = -1 THEN R(-1) ELSE RAdd(R(lag), PeakOffset(autocorr, lag))
  IN  IF RLt(bestLag, R(0)) \/ bestLag = R(0) THEN Null
      ELSE Some([frequency |-> RDiv(R(sampleRate), bestLag),
                 confidence |-> RDiv(maxVal, At(autocorr, 0))])

(***************************************************************************)
(* AudioAnalyzer: utilities                                                *)
(***************************************************************************)
\* calculateVolume returns min(sqrt(sum / length) * sqrt(2), 1).  The square
\* root is monotone and maps 0 to 0 and NaN to NaN, so the volume is carried
\* by its square, min(2 * sum / length, 1): the volume is 0, NaN or 1
\* exactly when this value is.
calculateVolume(data) ==
  LET sum == SumTo([i \in 0..(Len(data) - 1) |-> data[i + 1] * data[i + 1]], Len(data))
      meanSquare == RDiv(R(sum), R(Len(data)))
  IN  RMin(RMul(meanSquare, R(2)), R(1))

\* Lower edge, in mHz (rounded up), of the frequencies that round to note
\* index m = NoteIndexLow + k - 1: 440 * 2^((m - 69 - 0.5) / 12).
NoteEdges ==
  <<
     249, 263, 279, 296, 313, 332, 352, 372,
     395, 418, 443, 469, 497, 526, 558, 591,
     626, 663, 703, 744, 789, 835, 885, 938,
     993, 1052, 1115, 1181, 1251, 1326, 1405, 1488,
     1577, 1670, 1770, 1875, 1986, 2104, 2229, 2362,
     2502, 2651, 2809, 2976, 3153, 3340, 3539, 3749,
     3972, 4208, 4458, 4723, 5004, 5302, 5617, 5951,
     6305, 6680, 7077, 7498, 7944, 8416, 8916, 9446,
     10008, 10603, 11234, 11902, 12609, 13359, 14153, 14995,
     15887, 16831, 17832, 18892, 20016, 21206, 22467, 23803,
     25218, 26718, 28306, 29989, 31773, 33662, 35664, 37784,
     40031, 42411, 44933, 47605, 50436, 53435, 56612, 59978,
     63545, 67323, 71327, 75568, 80061, 84822, 89866, 95210,
     100871, 106869, 113224, 119956, 127089, 134646, 142653, 151135,
     160122, 169644, 179731, 190419, 201741, 213738, 226447, 239912,
     254178, 269292, 285305, 302270, 320244, 339287, 359462, 380837,
     403482, 427475, 452893, 479824, 508356, 538584, 570610, 604540,
     640488, 678573, 718923, 761673, 806964, 854949, 905786, 959647,
     1016711, 1077168, 1141219, 1209080, 1280975, 1357146, 1437846, 1523345,
     1613928, 1709897, 1811572, 1919294, 2033421, 2154335, 2282438, 2418159,
     2561950, 2714292, 2875692, 3046689, 3227855, 3419793, 3623144, 3838588,
     4066842, 4308669, 4564876, 4836317, 5123900, 5428583, 5751383, 6093378,
     6455709, 6839585, 7246288, 7677175, 8133683, 8617337, 9129751, 9672634,
     10247799, 10857165, 11502765, 12186755, 12911417, 13679170, 14492576, 15354349,
     16267366, 17234674, 18259501, 19345268, 20495597, 21714329, 23005530, 24373510,
     25822834
  >>

NoteIndexLow == -60

\* Math.round(12 * Math.log2(frequency / 440)) + 69 for a finite frequency
\* at or above the first edge of NoteEdges: the last note whose lower edge
\* the frequency reaches.
\* The frequency n/d is compared in mHz, floor(1000 n / d), computed without
\* leaving the 32-bit integers: a remainder over a denominator above 10^6 is
\* taken with both scaled down.
NoteIndex(frequency) ==
  LET n == frequency[1]
      d == frequency[2]
      scale == d \div 1000000 + 1
      mHz == (n \div d) * 1000 + (((n % d) \div scale) * 1000) \div (d \div scale)
  IN  NoteIndexLow - 1 + Cardinality({k \in 1..Len(NoteEdges) : NoteEdges[k] <= mHz})

RECURSIVE Digits(_)
\* the decimal digits of n >= 0
Digits(n) ==
  LET d == <<"0", "1", "2", "3", "4", "5", "6", "7", "8", "9">>[(n % 10) + 1]
  IN  IF n < 10 THEN <<d>> ELSE Append(Digits(n \div 10), d)

\* String(i) for an integer i, as its characters
IntToString(i) == IF i < 0 THEN <<"-">> \o Digits(-i) ELSE Digits(i)

StrUndefined == <<"u", "n", "d", "e", "f", "i", "n", "e", "d">>

\* frequencyToNote: `${NOTE_NAMES[noteIndex % 12]}${octave}`, the string as
\* its characters.  A negative noteIndex % 12 indexes nothing: "undefined".
frequencyToNote(frequency) ==
  LET noteIndex == NoteIndex(frequency)
      octave == JSFloorInt(noteIndex, 12) - 1
      pc == JSRem(noteIndex, 12)
      noteName == IF pc >= 0 THEN NOTE_NAMES[pc + 1] ELSE StrUndefined
  IN  noteName \o IntToString(octave)

DigitChars == <<"0", "1", "2", "3", "4", "5", "6", "7", "8", "9">>

\* parseInt(str, 10) for a string of at most one character, which is all
\* note.slice(-1) can be: the value of a decimal digit, otherwise NaN (Null)
parseInt(str) ==
  IF Len(str) = 1 /\ \E d \in 1..10 : DigitChars[d] = str[1]
  THEN Some((CHOOSE d \in 1..10 : DigitChars[d] = str[1]) - 1)
  ELSE Null

\* NOTE_NAMES.indexOf(noteName)
IndexOfNote(noteName) ==
  IF \E k \in 1..Len(NOTE_NAMES) : NOTE_NAMES[k] = noteName
  THEN (CHOOSE k \in 1..Len(NOTE_NAMES) : NOTE_NAMES[k] = noteName) - 1
  ELSE -1

\* A noteToFrequency that checks the octave only.
noteToFrequencyAnyName(note) ==
  LET octave == parseInt(Slice(note, -1, Len(note)))
      noteIndex == IndexOfNote(Slice(note, 0, -1))
  IN  IF octave = Null THEN [threw |-> TRUE, result |-> Null]
      ELSE [threw |-> FALSE, result |-> Some(noteIndex + (octave[1] - 4) * 12 - 9)]

\* noteToFrequency(note), note a string as its characters: [threw, result].
\* The frequency returned is 440 * 2^(semitonesFromA4 / 12); the result is
\* carried as Some(semitonesFromA4), which determines it.
noteToFrequency(note) ==
  LET octave == parseInt(Slice(note, -1, Len(note)))
      noteName == Slice(note, 0, -1)
      noteIndex == IndexOfNote(noteName)
  IN  IF noteIndex = -1 \/ octave = Null THEN [threw |-> TRUE, result |-> Null]
      ELSE [threw |-> FALSE, result |-> Some(noteIndex + (octave[1] - 4) * 12 - 9)]

(***************************************************************************)
(* AudioBuffer: [sampleRate, channels], channels a non-empty sequence of   *)
(* equally long sample sequences.                                          *)
(***************************************************************************)
AudioBuffer(channels) == [sampleRate |-> SampleRate, channels |-> channels]

Mono(samples) == AudioBuffer(<<samples>>)

BufferLength(audioBuffer) == Len(audioBuffer.channels[1])

\* audioBuffer.duration, in seconds
BufferDuration(audioBuffer) == RDiv(R(BufferLength(audioBuffer)), R(audioBuffer.sampleRate))

\* mixed[i] = (sum over the channels of channel[i]) / numChannels.  The
\* multi-channel buffers of the model have channel sums that divide evenly.
mixChannels(audioBuffer) ==
  LET numChannels == Len(audioBuffer.channels)
  IN  Arr([i \in 1..BufferLength(audioBuffer) |->
             SumTo([ch \in 0..(numChannels - 1) |-> audioBuffer.channels[ch + 1][i]],
                   numChannels) \div numChannels])

\* numberOfChannels > 1 ? mixChannels(audioBuffer) : getChannelData(0)
ChannelData(audioBuffer) ==
  IF Len(audioBuffer.channels) > 1 THEN mixChannels(audioBuffer)
  ELSE audioBuffer.channels[1]

(***************************************************************************)
(* calculateSpectrum                                                       *)
(***************************************************************************)
RECURSIVE FloorPow2(_)
\* Math.pow(2, Math.floor(Math.log2(n))) for n >= 1
FloorPow2(n) == IF n < 2 THEN 1 ELSE 2 * FloorPow2(n \div 2)

\* 10^(-j / 25.5) in units of 1e-6 (rounded up), j = 0, 1, ...: the least
\* energy whose byte value (10 * log10(e) + 100) * 2.55 reaches 255 - j.
ByteEdges ==
  <<
     1000000, 913660, 834774, 762699, 696847, 636681, 581710, 531485,
     485596, 443669, 405363, 370363, 338386, 309170, 282476, 258087,
     235803, 215444, 196842, 179847, 164319, 150132, 137169, 125326,
     114505, 104619, 95586, 87333, 79793, 72903, 66609, 60858,
     55603, 50803, 46416, 42409, 38747, 35402, 32345, 29553,
     27001, 24670, 22540, 20594, 18816, 17191, 15707, 14351,
     13112, 11980, 10945, 10000, 9137, 8348, 7627, 6969,
     6367, 5818, 5315, 4856, 4437, 4054
  >>

\* spectrum[i] = Math.max(0, Math.min(255, (db + 100) * 2.55)) stored in a
\* Uint8Array, db = 10 * log10(energy / count + 1e-10), for energy / count
\* of at least 1e-6 or zero: zero energy gives db = -100 and the byte 0,
\* and each edge of ByteEdges the energy falls short of takes one off 255.
SpectrumByte(energy, count) ==
  IF count = 0 \/ energy = 0 THEN 0
  ELSE 255 - Cardinality({j \in 1..Len(ByteEdges) : energy * 1000000 < ByteEdges[j] * count})

calculateSpectrum(data) ==
  LET len == Len(data)
      fftSize == IF len = 0 THEN 0 ELSE FloorPow2(len)
      frequencyBins == fftSize \div 2
  IN  Arr([b \in 1..frequencyBins |->
         LET i == b - 1
             startIdx == (i * len) \div frequencyBins
             endIdx == ((i + 1) * len) \div frequencyBins
             stop == Min2(endIdx, len)
             energy == SumTo([k \in 0..(stop - startIdx - 1) |->
                                data[startIdx + k + 1] * data[startIdx + k + 1]],
                             stop - startIdx)
         IN  SpectrumByte(energy, endIdx - startIdx)])

(***************************************************************************)
(* BPMDetector                                                             *)
(***************************************************************************)
\* The energy envelope holds sqrt(sum / windowSize); the model keeps it in
\* fixed point, in units of 1 / EnvScale, rounded down.
EnvScale == 100

ISqrt(v) == CHOOSE r \in 0..(2 * EnvScale + 1) : r * r <= v /\ v < (r + 1) * (r + 1)

BPMDetector(sampleRate, minBpm, maxBpm) ==
  [sampleRate |-> sampleRate, minBpm |-> minBpm, maxBpm |-> maxBpm]

calculateEnergyEnvelope(data, numFrames, windowSize, hopSize) ==
  Arr([f \in 1..numFrames |->
     LET start == (f - 1) * hopSize
         n == Min2(windowSize, Len(data) - start)
         sum == SumTo([j \in 0..(n - 1) |-> data[start + j + 1] * data[start + j + 1]], n)
     IN  ISqrt((sum * EnvScale * EnvScale) \div windowSize)])

\* diff[0] = 0; diff[i] = Math.max(0, envelope[i] - envelope[i - 1])
differentiate(envelope) ==
  Arr([f \in 1..Len(envelope) |->
         IF f = 1 THEN 0 ELSE Max2(0, envelope[f] - envelope[f - 1])])

autocorrelate(data) ==
  LET n == Len(data)
  IN  Arr([l \in 1..n |->
             SumTo([i \in 0..(n - l) |-> data[i + 1] * data[i + l]], n - l + 1)])

\* the isPeak loop for lag: no entry within 2 of lag exceeds autocorr[lag]
IsPeak(autocorr, lag) ==
  \A i \in Max2(0, lag - 2)..Min2(Len(autocorr) - 1, lag + 2) :
     i = lag \/ ~(autocorr[i + 1] > autocorr[lag + 1])

\* A pass that also takes a peak equal to the one held.
LagStepKeepingLast(autocorr, lag, best) ==
  IF autocorr[lag + 1] > 0 /\ ~(autocorr[lag + 1] < best.confidence) /\ IsPeak(autocorr, lag)
  THEN [confidence |-> autocorr[lag + 1], lag |-> lag]
  ELSE best

\* one pass of the body of the for loop, for lag, on best = [confidence, lag]
LagStep(autocorr, lag, best) ==
  IF autocorr[lag + 1] > best.confidence /\ IsPeak(autocorr, lag)
  THEN [confidence |-> autocorr[lag + 1], lag |-> lag]
  ELSE best

RECURSIVE LagSearch(_, _, _, _)
\* [confidence, lag] (bestConfidence, bestLag) after the for loop has run
\* over the lags lo .. hi - 1, entered with best; the range is run by halves
LagSearch(autocorr, lo, hi, best) ==
  IF hi <= lo THEN best
  ELSE IF hi = lo + 1 THEN LagStep(autocorr, lo, best)
  ELSE LET first == LagSearch(autocorr, lo, (lo + hi) \div 2, best)
       IN  After(first, LagSearch(autocorr, (lo + hi) \div 2, hi, first))

RECURSIVE MaxRange(_, _, _)
MaxRange(arr, lo, hi) ==
  IF hi = lo THEN arr[lo]
  ELSE Max2(MaxRange(arr, lo, (lo + hi) \div 2), MaxRange(arr, (lo + hi) \div 2 + 1, hi))

\* Math.max(...arr) of the first n >= 1 entries of an integer array
MaxOf(arr, n) == MaxRange(arr, 1, n)

\* A scan without the threshold: every interior frame above both neighbours.
detectBeatPositionsAllPeaks(diffEnvelope, sampleRate, hopSize) ==
  LET n == Len(diffEnvelope)
      isBeat(i) == /\ diffEnvelope[i + 1] > diffEnvelope[i]
                   /\ diffEnvelope[i + 1] > diffEnvelope[i + 2]
      frames == SelectSeq([i \in 1..(n - 2) |-> i], isBeat)
  IN  Arr([k \in 1..Len(frames) |-> RDiv(R(frames[k] * hopSize), R(sampleRate))])

\* timestamps (i * hopSize) / sampleRate of the interior frames above 30% of
\* the maximum and above both neighbours, in ascending order of i
detectBeatPositions(diffEnvelope, sampleRate, hopSize) ==
  LET n == Len(diffEnvelope)
      max == MaxOf(diffEnvelope, n)
      isBeat(i) == /\ 10 * diffEnvelope[i + 1] > 3 * max
                   /\ diffEnvelope[i + 1] > diffEnvelope[i]
                   /\ diffEnvelope[i + 1] > diffEnvelope[i + 2]
      frames == SelectSeq([i \in 1..(n - 2) |-> i], isBeat)
  IN  Arr([k \in 1..Len(frames) |-> RDiv(R(frames[k] * hopSize), R(sampleRate))])

\* BPMDetector.detect.  threw: new Float32Array(numFrames) raised a
\* RangeError (numFrames < 0) and nothing is returned.
BPMDetect(det, audioBuffer) ==
  LET channelData == ChannelData(audioBuffer)
      hopSize == det.sampleRate \div 100
      windowSize == (det.sampleRate * 4) \div 100
      numFrames == JSFloorInt(Len(channelData) - windowSize, hopSize)
  IN  IF numFrames < 0
      THEN [threw |-> TRUE, bpm |-> Null, confidence |-> R(0), beatPositions |-> <<>>]
      ELSE
        LET energyEnvelope == calculateEnergyEnvelope(channelData, numFrames, windowSize, hopSize)
            diffEnvelope == differentiate(energyEnvelope)
            autocorr == autocorrelate(diffEnvelope)
            minLag == (60 * det.sampleRate) \div (det.maxBpm * hopSize)
            maxLag == CeilDiv(60 * det.sampleRate, det.minBpm * hopSize)
            best == LagSearch(autocorr, minLag, Min2(maxLag, Len(autocorr) - 1) + 1,
                              [confidence |-> 0, lag |-> 0])
            bestLag == best.lag
            zeroLag == IF Len(autocorr) = 0 \/ autocorr[1] = 0 THEN 1 ELSE autocorr[1]
        IN  [threw |-> FALSE,
             bpm |-> IF bestLag > 0
                     THEN Some((2 * 60 * det.sampleRate + bestLag * hopSize)
                                 \div (2 * bestLag * hopSize))
                     ELSE Null,
             confidence |-> RMin(RDiv(R(best.confidence), R(zeroLag)), R(1)),
             beatPositions |-> IF bestLag > 0
                               THEN detectBeatPositions(diffEnvelope, det.sampleRate, hopSize)
                               ELSE <<>>]

\* diffEnvelope of detect for a buffer it does not raise on
DiffEnvelopeOf(det, audioBuffer) ==
  LET channelData == ChannelData(audioBuffer)
      hopSize == det.sampleRate \div 100
      windowSize == (det.sampleRate * 4) \div 100
      numFrames == JSFloorInt(Len(channelData) - windowSize, hopSize)
  IN  differentiate(calculateEnergyEnvelope(channelData, numFrames, windowSize, hopSize))

\* minLag of detect
BpmMinLagOf(det) == (60 * det.sampleRate) \div (det.maxBpm * (det.sampleRate \div 100))

\* maxLag of detect
BpmMaxLagOf(det) == CeilDiv(60 * det.sampleRate, det.minBpm * (det.sampleRate \div 100))

\* bestLag of detect after its lag loop, for a buffer it does not raise on
BestLagOf(det, audioBuffer) ==
  LET autocorr == autocorrelate(DiffEnvelopeOf(det, audioBuffer))
  IN  LagSearch(autocorr, BpmMinLagOf(det),
                Min2(BpmMaxLagOf(det), Len(autocorr) - 1) + 1,
                [confidence |-> 0, lag |-> 0]).lag

(***************************************************************************)
(* ChordRecognizer                                                         *)
(***************************************************************************)
\* CHORD_TEMPLATES in declaration order
CHORD_TEMPLATES ==
  << [type |-> "major", intervals |-> <<0, 4, 7>>],
     [type |-> "minor", intervals |-> <<0, 3, 7>>],
     [type |-> "diminished", intervals |-> <<0, 3, 6>>],
     [type |-> "augmented", intervals |-> <<0, 4, 8>>],
     [type |-> "suspended4", intervals |-> <<0, 5, 7>>],
     [type |-> "suspended2", intervals |-> <<0, 2, 7>>] >>

\* the pitch class a spectral bin adds to, or -1 when the bin is skipped
BinPitchClass(i, binCount, sampleRate) ==
  IF i = 0 THEN -1
  ELSE LET pitchClass == JSRem(NoteIndex(RNorm(i * sampleRate, 2 * binCount)), 12)
       IN  IF pitchClass >= 0 /\ pitchClass < 12 THEN pitchClass ELSE -1

\* A chromagram normalised by the sum of its entries.
calculateChromagramBySum(frequencyData, sampleRate) ==
  LET binCount == Len(frequencyData)
      raw == Arr([pc \in 1..12 |->
                    SumTo([i \in 0..(binCount - 1) |->
                             IF BinPitchClass(i, binCount, sampleRate) = pc - 1
                             THEN frequencyData[i + 1] ELSE 0],
                          binCount)])
      sum == SumTo([pc \in 0..11 |-> raw[pc + 1]], 12)
  IN  Arr([pc \in 1..12 |-> IF sum > 0 THEN RNorm(raw[pc], sum) ELSE R(raw[pc])])

calculateChromagram(frequencyData, sampleRate) ==
  LET binCount == Len(frequencyData)
      raw == Arr([pc \in 1..12 |->
                    SumTo([i \in 0..(binCount - 1) |->
                             IF BinPitchClass(i, binCount, sampleRate) = pc - 1
                             THEN frequencyData[i + 1] ELSE 0],
                          binCount)])
      max == MaxOf(raw, 12)
  IN  Arr([pc \in 1..12 |-> IF max > 0 THEN RNorm(raw[pc], max) ELSE R(raw[pc])])

InTemplate(intervals, k) == \E n \in 1..Len(intervals) : intervals[n] = k

RECURSIVE RSumRange(_, _, _)
RSumRange(f, lo, hi) ==
  IF hi <= lo THEN R(0)
  ELSE IF hi = lo + 1 THEN f[lo]
  ELSE RAdd(RSumRange(f, lo, (lo + hi) \div 2), RSumRange(f, (lo + hi) \div 2, hi))

\* f[0] + ... + f[n-1] for a function f on 0..n-1 of numbers
RSumTo(f, n) == RSumRange(f, 0, n)

\* matchTemplate: the energy at the template's pitch classes minus 0.3 times
\* the energy at every other pitch class
matchTemplate(chromagram, root, intervals) ==
  LET hit == RSumTo([n \in 0..(Len(intervals) - 1) |->
                       chromagram[((root + intervals[n + 1]) % 12) + 1]],
                    Len(intervals))
      miss == RSumTo([i \in 0..11 |->
                        IF InTemplate(intervals, (i - root + 12) % 12) THEN R(0)
                        ELSE RMul(chromagram[i + 1], <<3, 10>>)],
                     12)
  IN  RSub(hit, miss)

\* A labelling that knows one suspended template only.
formatChordTypeOneSuspended(type) ==
  CASE type = "major" -> "major"
    [] type = "minor" -> "minor"
    [] type = "diminished" -> "diminished"
    [] type = "augmented" -> "augmented"
    [] type = "suspended4" -> "suspended"
    [] OTHER -> "unknown"

formatChordType(type) ==
  CASE type = "major" -> "major"
    [] type = "minor" -> "minor"
    [] type = "diminished" -> "diminished"
    [] type = "augmented" -> "augmented"
    [] type \in {"suspended4", "suspended2"} -> "suspended"
    [] OTHER -> "unknown"

ChordInfo(root, template, score) ==
  LET rootName == NOTE_NAMES[root + 1]
      typeLabel == formatChordType(template.type)
  IN  [root |-> rootName,
       type |-> typeLabel,
       name |-> IF template.type = "major" THEN <<rootName>> ELSE <<rootName, typeLabel>>,
       notes |-> Arr([n \in 1..Len(template.intervals) |->
                        NOTE_NAMES[((root + template.intervals[n]) % 12) + 1]]),
       confidence |-> RMin(RDiv(score, R(3)), R(1))]

\* A pass that also replaces the best chord on an equal score.
RecognizeStepKeepingLast(chromagram, root, template, best) ==
  LET score == matchTemplate(chromagram, root, template.intervals)
  IN  IF ~RLt(score, best.score)
      THEN [score |-> score, chord |-> Some(ChordInfo(root, template, score))]
      ELSE best

\* one pass of the body of the two nested loops of recognize, for root and
\* template, on best = [score, chord] (bestScore, bestChord)
RecognizeStep(chromagram, root, template, best) ==
  LET score == matchTemplate(chromagram, root, template.intervals)
  IN  IF RGt(score, best.score)
      THEN [score |-> score, chord |-> Some(ChordInfo(root, template, score))]
      ELSE best

RECURSIVE RecognizeSteps(_, _, _, _)
\* best after the passes lo .. hi - 1 of the nested loops, entered with best;
\* pass k is root k div 6 with template k mod 6, and the range is run by halves
RecognizeSteps(chromagram, lo, hi, best) ==
  IF hi <= lo THEN best
  ELSE IF hi = lo + 1
  THEN RecognizeStep(chromagram, lo \div Len(CHORD_TEMPLATES),
                     CHORD_TEMPLATES[(lo % Len(CHORD_TEMPLATES)) + 1], best)
  ELSE LET first == RecognizeSteps(chromagram, lo, (lo + hi) \div 2, best)
       IN  After(first, RecognizeSteps(chromagram, (lo + hi) \div 2, hi, first))

\* ChordRecognizer.recognize: Null or Some(ChordInfo)
recognize(chromagram) ==
  RecognizeSteps(chromagram, 0, 12 * Len(CHORD_TEMPLATES),
                 [score |-> RNeg(Infinity), chord |-> Null]).chord

\* AudioAnalyzer.recognizeChord(frequencyData), sampleRate that of the context
recognizeChord(frequencyData, sampleRate) ==
  recognize(calculateChromagram(frequencyData, sampleRate))

(***************************************************************************)
(* AudioAnalyzer: the object                                               *)
(***************************************************************************)
\* The most analyze calls in flight at once.
MaxCalls == 2
\* The most setOptions calls in one behaviour.
MaxSetOptions == 2
\* The most synchronous analyses (analyzeSegment, analyzeRealtime, detectBPM)
\* in one behaviour.
MaxAnalyses == 1

VARIABLES
  options,      \* this.options
  yinDetector,  \* this.yinDetector
  analyser,     \* this.analyser, with the sample streams connected to it
  calls,        \* the analyze calls: where each stands, and what it holds
  outcomes,     \* the outcomes of the synchronous analyses, in order
  buffer,       \* the AudioBuffer the caller hands to the synchronous operations
  setCount,     \* the number of setOptions calls made
  given,        \* the other values the caller holds to hand to an operation
  refs,         \* which arrays the results and the analyze calls hold
  gameState     \* GameState.instance, the localStorage item and the clock

vars ==
  <<options, yinDetector, analyser, calls, outcomes, buffer, setCount, given, refs,
    gameState>>

\* An AnalysisOptions argument: every field is Null (undefined) or Some(v).
NoOptions ==
  [fftSize |-> Null, smoothingTimeConstant |-> Null, minFrequency |-> Null,
   maxFrequency |-> Null, yinThreshold |-> Null, enableAdvanced |-> Null,
   minBpm |-> Null, maxBpm |-> Null]

\* x ?? d
Default(x, d) == IF x = Null THEN d ELSE x[1]

\* The AnalyserNode setters raise an IndexSizeError for an fftSize that is not a
\* power of two in 32..32768 and for a smoothingTimeConstant outside 0..1.
ValidFftSize(n) == n \in {32, 64, 128, 256, 512, 1024, 2048, 4096, 8192, 16384, 32768}

ValidSmoothing(a) == IsFinite(a) /\ ~RLt(a, R(0)) /\ ~RGt(a, R(1))

\* audioContext.createAnalyser(): nothing is connected to the node.  inputs[0]
\* is the stream of a source outside the analyzer, inputs[c] the stream of
\* the source of analyze call c; <<>> is no stream.
createAnalyser ==
  [fftSize |-> 2048, smoothingTimeConstant |-> <<4, 5>>,
   inputs |-> [s \in 0..MaxCalls |-> <<>>]]

\* new AudioAnalyzer(audioContext, arg): [threw, options, analyser, yinDetector]
constructor(arg) ==
  LET opts == [fftSize |-> Default(arg.fftSize, 2048),
               smoothingTimeConstant |-> Default(arg.smoothingTimeConstant, <<4, 5>>),
               minFrequency |-> Default(arg.minFrequency, 50),
               maxFrequency |-> Default(arg.maxFrequency, 5000),
               yinThreshold |-> Default(arg.yinThreshold, <<1, 10>>),
               enableAdvanced |-> Default(arg.enableAdvanced, FALSE),
               minBpm |-> Default(arg.minBpm, 60),
               maxBpm |-> Default(arg.maxBpm, 180)]
  IN  [threw |-> ~ValidFftSize(opts.fftSize) \/ ~ValidSmoothing(opts.smoothingTimeConstant),
       options |-> opts,
       analyser |-> [createAnalyser EXCEPT !.fftSize = opts.fftSize,
                                           !.smoothingTimeConstant = opts.smoothingTimeConstant],
       yinDetector |-> YINDetector(0, SampleRate, opts.yinThreshold,
                                   opts.minFrequency, opts.maxFrequency)]

\* A rebuild that passes the threshold of the detector it replaces instead
\* of the option.
RebuildDetectorKeepingThreshold(det, opts) ==
  YINDetector(det.id + 1, SampleRate, det.threshold, opts.minFrequency, opts.maxFrequency)

\* this.yinDetector = new YINDetector(sampleRate, this.options.yinThreshold,
\*   this.options.minFrequency, this.options.maxFrequency), replacing det
RebuildDetector(det, opts) ==
  YINDetector(det.id + 1, SampleRate, opts.yinThreshold, opts.minFrequency, opts.maxFrequency)

\* A setOptions that replaces the options by the defaults overlaid with the
\* argument, as the constructor does, and rebuilds the detector.
setOptionsFromDefaults(this, arg) ==
  LET fresh == constructor(arg)
  IN  [threw |-> fresh.threw, options |-> fresh.options,
       analyser |-> [this.analyser EXCEPT
                       !.fftSize = fresh.options.fftSize,
                       !.smoothingTimeConstant = fresh.options.smoothingTimeConstant],
       yinDetector |-> RebuildDetector(this.yinDetector, fresh.options)]

\* setOptions(arg) on [options, analyser, yinDetector]: the object after the
\* call, and threw when an AnalyserNode setter raised; the statements run in
\* the order of the code and nothing after the raising one runs.
setOptions(this, arg) ==
  LET o1 == IF arg.fftSize # Null
            THEN [this.options EXCEPT !.fftSize = arg.fftSize[1]] ELSE this.options
      threw1 == arg.fftSize # Null /\ ~ValidFftSize(arg.fftSize[1])
      a1 == IF arg.fftSize # Null /\ ~threw1
            THEN [this.analyser EXCEPT !.fftSize = arg.fftSize[1]] ELSE this.analyser
      o2 == IF arg.smoothingTimeConstant # Null
            THEN [o1 EXCEPT !.smoothingTimeConstant = arg.smoothingTimeConstant[1]] ELSE o1
      threw2 == arg.smoothingTimeConstant # Null
                  /\ ~ValidSmoothing(arg.smoothingTimeConstant[1])
      a2 == IF arg.smoothingTimeConstant # Null /\ ~threw2
            THEN [a1 EXCEPT !.smoothingTimeConstant = arg.smoothingTimeConstant[1]] ELSE a1
      o3 == IF arg.minFrequency # Null
            THEN [o2 EXCEPT !.minFrequency = arg.minFrequency[1]] ELSE o2
      d3 == IF arg.minFrequency # Null
            THEN RebuildDetector(this.yinDetector, o3) ELSE this.yinDetector
      o4 == IF arg.maxFrequency # Null
            THEN [o3 EXCEPT !.maxFrequency = arg.maxFrequency[1]] ELSE o3
      d4 == IF arg.maxFrequency # Null THEN RebuildDetector(d3, o4) ELSE d3
      o5 == IF arg.yinThreshold # Null
            THEN [o4 EXCEPT !.yinThreshold = arg.yinThreshold[1]] ELSE o4
      d5 == IF arg.yinThreshold # Null THEN RebuildDetector(d4, o5) ELSE d4
      o6 == IF arg.enableAdvanced # Null
            THEN [o5 EXCEPT !.enableAdvanced = arg.enableAdvanced[1]] ELSE o5
      o7 == IF arg.minBpm # Null THEN [o6 EXCEPT !.minBpm = arg.minBpm[1]] ELSE o6
      o8 == IF arg.maxBpm # Null THEN [o7 EXCEPT !.maxBpm = arg.maxBpm[1]] ELSE o7
  IN  IF threw1
      THEN [threw |-> TRUE, options |-> o1, analyser |-> this.analyser,
            yinDetector |-> this.yinDetector]
      ELSE IF threw2
      THEN [threw |-> TRUE, options |-> o2, analyser |-> a1,
            yinDetector |-> this.yinDetector]
      ELSE [threw |-> FALSE, options |-> o8, analyser |-> a2, yinDetector |-> d5]

\* analyser.getFloatTimeDomainData(array), array of size elements: the
\* samples the node holds are the sum of the streams connected to it, a
\* stream that has ended counting as silence.  The frames are taken from
\* the start of the streams: the time a stream has been playing is not
\* modelled.  Elements past analyser.fftSize are left 0.
getFloatTimeDomainData(an, size) ==
  Arr([i \in 1..size |->
         IF i > an.fftSize THEN 0
         ELSE SumTo([s \in 0..MaxCalls |->
                       IF i <= Len(an.inputs[s]) THEN an.inputs[s][i] ELSE 0],
                    MaxCalls + 1)])

\* analyser.getByteFrequencyData(array), array of count elements.  The
\* transform of the node is not computed: a node that holds silence gives
\* zeros, and one that holds anything else gives the bytes of two partials.
getByteFrequencyData(an, count) ==
  IF \A s \in 0..MaxCalls : \A i \in 1..Len(an.inputs[s]) : an.inputs[s][i] = 0
  THEN Arr([i \in 1..count |-> 0])
  ELSE Arr([i \in 1..count |-> IF i % 4 = 2 THEN 255 ELSE IF i % 4 = 3 THEN 100 ELSE 0])

\* the stream a buffer source sends to the mono input of the analyser
SourceStream(audioBuffer) == ChannelData(audioBuffer)

\* pitchResult?.frequency ?? null
PitchOf(pitchResult) ==
  IF pitchResult = Null THEN Null ELSE Some(pitchResult[1].frequency)

\* pitch ? this.frequencyToNote(pitch) : null
NoteOf(pitch) ==
  IF pitch # Null /\ Truthy(pitch[1]) THEN Some(frequencyToNote(pitch[1])) ELSE Null

\* The AudioAnalysisResult built by the three analysis methods (analyzedAt is
\* left out); duration is Null in the result of analyzeRealtime, which has
\* no such field, and advanced is Null where the field is not set.
AnalysisResult(duration, volume, pitchResult, waveformData, frequencyData) ==
  [duration |-> duration, volume |-> volume, pitch |-> PitchOf(pitchResult),
   note |-> NoteOf(PitchOf(pitchResult)), waveformData |-> waveformData,
   frequencyData |-> frequencyData, advanced |-> Null]

\* performAdvancedAnalysis: [threw, value], threw when BPMDetector.detect raised
performAdvancedAnalysis(opts, audioBuffer, frequencyData, pitchResult) ==
  LET bpmResult == BPMDetect(BPMDetector(audioBuffer.sampleRate, opts.minBpm, opts.maxBpm),
                             audioBuffer)
      chromagram == calculateChromagram(frequencyData, audioBuffer.sampleRate)
  IN  IF bpmResult.threw THEN [threw |-> TRUE, value |-> Null]
      ELSE [threw |-> FALSE,
            value |-> Some([bpm |-> bpmResult.bpm,
                            bpmConfidence |-> bpmResult.confidence,
                            chord |-> recognize(chromagram),
                            pitchConfidence |-> IF pitchResult = Null THEN R(0)
                                                ELSE pitchResult[1].confidence,
                            chromagram |-> chromagram,
                            beatPositions |-> bpmResult.beatPositions])]

\* analyzeSegment(audioBuffer, startTime, duration), with detector and
\* options those of the analyzer; startTime and duration are numbers
analyzeSegment(det, audioBuffer, startTime, duration) ==
  LET sampleRate == R(audioBuffer.sampleRate)
      startProduct == RMul(startTime, sampleRate)
      durationProduct == RMul(duration, sampleRate)
      startSample == FloorDiv(startProduct[1], startProduct[2])
      endSample == Min2(startSample + FloorDiv(durationProduct[1], durationProduct[2]),
                        BufferLength(audioBuffer))
      segmentData == Slice(ChannelData(audioBuffer), startSample, endSample)
  IN  AnalysisResult(Some(BufferDuration(audioBuffer)), calculateVolume(segmentData),
                     YINDetect(det, segmentData), segmentData,
                     calculateSpectrum(segmentData))

\* analyzeRealtime()
analyzeRealtime(det, an) ==
  LET waveformData == getFloatTimeDomainData(an, an.fftSize)
      frequencyData == getByteFrequencyData(an, an.fftSize \div 2)
  IN  AnalysisResult(Null, calculateVolume(waveformData), YINDetect(det, waveformData),
                     waveformData, frequencyData)

\* An analyze that runs the advanced stage whatever enableAdvanced is.
analyzeAlwaysAdvanced(this, call) ==
  LET audioBuffer == call.audioBuffer[1]
      frequencyData == getByteFrequencyData(this.analyser, call.size \div 2)
      waveformData == getFloatTimeDomainData(this.analyser, call.size)
      pitchResult == YINDetect(this.yinDetector, waveformData)
      result == AnalysisResult(Some(BufferDuration(audioBuffer)),
                               calculateVolume(waveformData), pitchResult,
                               waveformData, frequencyData)
      advanced == performAdvancedAnalysis(this.options, audioBuffer, frequencyData,
                                          pitchResult)
  IN  IF advanced.threw THEN [threw |-> TRUE, result |-> Null]
      ELSE [threw |-> FALSE, result |-> Some([result EXCEPT !.advanced = advanced.value])]

\* analyze(audioBuffer) from its await on: call holds the buffer and the
\* length of the arrays allocated before the await, and this, the analyzer,
\* is read when the call resumes.  [threw, result]: threw when
\* performAdvancedAnalysis raised, and then nothing is returned.
analyze(this, call) ==
  LET audioBuffer == call.audioBuffer[1]
      frequencyData == getByteFrequencyData(this.analyser, call.size \div 2)
      waveformData == getFloatTimeDomainData(this.analyser, call.size)
      pitchResult == YINDetect(this.yinDetector, waveformData)
      result == AnalysisResult(Some(BufferDuration(audioBuffer)),
                               calculateVolume(waveformData), pitchResult,
                               waveformData, frequencyData)
      advanced == performAdvancedAnalysis(this.options, audioBuffer, frequencyData,
                                          pitchResult)
  IN  IF ~this.options.enableAdvanced THEN [threw |-> FALSE, result |-> Some(result)]
      ELSE IF advanced.threw THEN [threw |-> TRUE, result |-> Null]
      ELSE [threw |-> FALSE, result |-> Some([result EXCEPT !.advanced = advanced.value])]

\* detectBPM(audioBuffer): [threw, result]
detectBPM(opts, audioBuffer) ==
  LET r == BPMDetect(BPMDetector(audioBuffer.sampleRate, opts.minBpm, opts.maxBpm),
                     audioBuffer)
  IN  [threw |-> r.threw,
       result |-> IF r.threw THEN Null
                  ELSE Some([bpm |-> r.bpm, confidence |-> r.confidence,
                             beatPositions |-> r.beatPositions])]

(***************************************************************************)
(* The arguments the specifications draw.                                  *)
(***************************************************************************)
\* setOptions arguments supplying any subset of minFrequency, maxFrequency
\* and yinThreshold
FrequencyArgs ==
  {[NoOptions EXCEPT !.minFrequency = a, !.maxFrequency = b, !.yinThreshold = t] :
     a \in {Null, Some(10), Some(60)},
     b \in {Null, Some(50), Some(5000)},
     t \in {Null, Some(<<1, 5>>), Some(R(3))}}

\* setOptions arguments supplying the other fields
OtherArgs ==
  {[NoOptions EXCEPT !.fftSize = Some(64)],
   [NoOptions EXCEPT !.fftSize = Some(0)],
   [NoOptions EXCEPT !.fftSize = Some(0), !.minFrequency = Some(10)],
   [NoOptions EXCEPT !.smoothingTimeConstant = Some(<<1, 2>>)],
   [NoOptions EXCEPT !.smoothingTimeConstant = Some(R(2)), !.yinThreshold = Some(<<1, 5>>)],
   [NoOptions EXCEPT !.enableAdvanced = Some(TRUE)],
   [NoOptions EXCEPT !.enableAdvanced = Some(FALSE), !.maxFrequency = Some(50)],
   [NoOptions EXCEPT !.minBpm = Some(600)],
   [NoOptions EXCEPT !.maxBpm = Some(3000)],
   [NoOptions EXCEPT !.minBpm = Some(200), !.maxBpm = Some(100)]}

OptionArgs == FrequencyArgs \cup OtherArgs

\* constructor arguments: none, and some fields
CtorArgs ==
  {NoOptions,
   [NoOptions EXCEPT !.fftSize = Some(32), !.minFrequency = Some(10)],
   [NoOptions EXCEPT !.minFrequency = Some(50), !.maxFrequency = Some(40)]}

\* An analyze call: pc is where it stands ("idle": not made, "awaiting": at
\* its await, "returned", "failed": its promise settled), audioBuffer its
\* argument, size the length of its waveformData array, detector the detector
\* the analyzer held when the call started, result what it returned.
NoCall ==
  [pc |-> "idle", audioBuffer |-> Null, size |-> 0, detector |-> Null, result |-> Null]

\* The identity of a typed array.  An array allocated by the program is named
\* by the operation that allocates it, the instance of that operation (the
\* number of its outcome, or of its analyze call) and the place in its code.
NewArray(op, instance, site) == <<op, instance, site>>

\* audioBuffer.getChannelData(ch - 1) of the buffer of the caller
InputRef(ch) == <<"audioBuffer", ch, "channelData">>

\* A copy that is a view on the storage of its source, as subarray() gives.
SubarrayRef(source, fresh) == source

\* typedArray.slice(): a new array, fresh, holding a copy of the elements
SliceRef(source, fresh) == fresh

\* the arrays held by the result of instance k of analyzeSegment
analyzeSegmentRefs(audioBuffer, k) ==
  LET channelData == IF Len(audioBuffer.channels) > 1
                     THEN NewArray("analyzeSegment", k, "mixed")
                     ELSE InputRef(1)
  IN  [waveformData |-> SliceRef(channelData, NewArray("analyzeSegment", k, "segmentData")),
       frequencyData |-> NewArray("analyzeSegment", k, "spectrum")]

\* the arrays held by the result of instance k of analyzeRealtime
analyzeRealtimeRefs(k) ==
  [waveformData |-> SliceRef(NewArray("analyzeRealtime", k, "waveformData"),
                             NewArray("analyzeRealtime", k, "waveformData.slice")),
   frequencyData |-> SliceRef(NewArray("analyzeRealtime", k, "frequencyData"),
                              NewArray("analyzeRealtime", k, "frequencyData.slice"))]

\* the arrays analyze call c allocates before its await
analyzeLocals(c) ==
  [waveformData |-> NewArray("analyze", c, "waveformData"),
   frequencyData |-> NewArray("analyze", c, "frequencyData")]

\* the arrays held by the result of analyze call c, locals those it allocated
analyzeRefs(locals, c) ==
  [waveformData |-> SliceRef(locals.waveformData, NewArray("analyze", c, "waveformData.slice")),
   frequencyData |-> SliceRef(locals.frequencyData,
                              NewArray("analyze", c, "frequencyData.slice"))]

\* No result and no call holds an array: outcomes maps the number of an
\* outcome that is an analysis result to its arrays, calls gives for each
\* analyze call the arrays it allocated and those of its result.
NoRefs ==
  [outcomes |-> <<>>,
   calls |-> [c \in 1..MaxCalls |-> [locals |-> Null, result |-> Null]]]

\* What the caller holds besides its AudioBuffer, each Null when it holds
\* none: a Uint8Array of spectrum bytes, a chromagram, a frequency and a
\* note name.
NoInput ==
  [frequencyData |-> Null, chromagram |-> Null, frequency |-> Null, note |-> Null,
   data |-> Null]

(***************************************************************************)
(* GameState (src/utils/GameState.ts).  The operations take and return     *)
(* [instance, localStorage, clock]: the fields of the GameState object,    *)
(* the item 'sound-garden-state' of localStorage (Null: there is none) and *)
(* the value Date.now() returns.                                           *)
(***************************************************************************)
PlantIds ==
  {"mushroom", "tree", "spire", "crystal", "flower", "star", "moon", "rainbow"}

AchievementIds ==
  {"first_recording", "three_in_a_row", "harmony_master", "night_owl", "rain_dancer",
   "collector", "level_5", "melody_maker"}

\* Date.now() when the page is loaded, in ms
Epoch == 1000000

\* the field initialisers of the class: collections is the set of the
\* unlocked plants, achievements gives Null (locked) or Some(unlockedAt)
GameStateFields ==
  [gardenLevel |-> 1, gardenExp |-> 0, expToNextLevel |-> 100,
   collections |-> {"mushroom", "tree", "spire"},
   achievements |-> [a \in AchievementIds |-> Null],
   stats |-> [totalRecordings |-> 0, totalPlants |-> 0, maxGardenLevel |-> 1,
              playTime |-> 0],
   consecutiveRecordings |-> 0, lastRecordingTime |-> 0]

\* value || fallback for a number
OrElse(value, fallback) == IF value = 0 THEN fallback ELSE value

\* loadFromStorage
loadFromStorage(w) ==
  IF w.localStorage = Null THEN w
  ELSE LET data == w.localStorage[1]
       IN  [w EXCEPT !.instance =
              [gardenLevel |-> OrElse(data.gardenLevel, 1),
               gardenExp |-> OrElse(data.gardenExp, 0),
               expToNextLevel |-> OrElse(data.expToNextLevel, 100),
               collections |-> data.collections,
               achievements |-> data.achievements,
               stats |-> data.stats,
               consecutiveRecordings |-> OrElse(data.consecutiveRecordings, 0),
               lastRecordingTime |-> OrElse(data.lastRecordingTime, 0)]]

\* GameState.getInstance() for the first time, saved the item of localStorage
getInstance(saved) ==
  loadFromStorage([instance |-> GameStateFields, localStorage |-> saved, clock |-> Epoch])

\* saveToStorage: every field is written
saveToStorage(w) == [w EXCEPT !.localStorage = Some(w.instance)]

\* unlockAchievement(achievementId); Date.now() is read in the millisecond
\* of the handler's first reading
unlockAchievement(w, achievementId) ==
  IF w.instance.achievements[achievementId] = Null
  THEN saveToStorage([w EXCEPT !.instance.achievements[achievementId] = Some(w.clock)])
  ELSE w

checkCollectorAchievement(w) ==
  IF w.instance.collections = PlantIds THEN unlockAchievement(w, "collector") ELSE w

\* unlockPlant(plantId)
unlockPlant(w, plantId) ==
  IF plantId \notin w.instance.collections
  THEN saveToStorage(checkCollectorAchievement(
                       [w EXCEPT !.instance.collections = @ \cup {plantId}]))
  ELSE w

\* levelUp
levelUp(w) ==
  LET gardenLevel == w.instance.gardenLevel + 1
      a == [w EXCEPT !.instance.gardenLevel = gardenLevel,
                     !.instance.gardenExp = @ - w.instance.expToNextLevel,
                     !.instance.expToNextLevel = (3 * @) \div 2,
                     !.instance.stats.maxGardenLevel = Max2(@, gardenLevel)]
      b == IF gardenLevel >= 5 THEN unlockAchievement(a, "level_5") ELSE a
      c == IF gardenLevel >= 5 THEN unlockPlant(b, "star") ELSE b
  IN  saveToStorage(c)

\* addExp(amount)
addExp(w, amount) ==
  LET a == [w EXCEPT !.instance.gardenExp = @ + amount]
      b == IF a.instance.gardenExp >= a.instance.expToNextLevel THEN levelUp(a) ELSE a
  IN  saveToStorage(b)

\* recordRecording(), elapsed the ms since the clock was last read
recordRecording(w, elapsed) ==
  LET now == w.clock + elapsed
      a == [w EXCEPT !.clock = now,
                     !.instance.stats.totalRecordings = @ + 1,
                     !.instance.consecutiveRecordings =
                        IF now - w.instance.lastRecordingTime < 60000 THEN @ + 1 ELSE 1,
                     !.instance.lastRecordingTime = now]
      b == IF a.instance.stats.totalRecordings = 1
           THEN unlockAchievement(a, "first_recording") ELSE a
      c == IF b.instance.consecutiveRecordings >= 3
           THEN unlockPlant(unlockAchievement(b, "three_in_a_row"), "crystal") ELSE b
  IN  saveToStorage(addExp(c, 10))

\* The state after new AudioAnalyzer(audioContext, arg) has returned, with
\* audioBuffer the buffer of the caller, stream what a source outside the
\* analyzer plays into its node (<<>>: there is none) and input the other
\* values the caller holds
AnalyzerConstructedWith(arg, audioBuffer, stream, input) ==
  LET this == constructor(arg)
  IN  /\ ~this.threw
      /\ options = this.options
      /\ analyser = [this.analyser EXCEPT !.inputs[0] = stream]
      /\ yinDetector = this.yinDetector
      /\ calls = [c \in 1..MaxCalls |-> NoCall]
      /\ outcomes = <<>>
      /\ buffer = audioBuffer
      /\ setCount = 0
      /\ given = input
      /\ refs = NoRefs

\* the same, in a page that starts with an empty localStorage
ConstructedWith(arg, audioBuffer, stream, input) ==
  /\ AnalyzerConstructedWith(arg, audioBuffer, stream, input)
  /\ gameState = getInstance(Null)

Constructed(arg, audioBuffer, stream) == ConstructedWith(arg, audioBuffer, stream, NoInput)

(***************************************************************************)
(* Actions                                                                 *)
(***************************************************************************)
\* analyzer.setOptions(arg)
SetOptions(arg) ==
  LET this == setOptions([options |-> options, analyser |-> analyser,
                          yinDetector |-> yinDetector], arg)
  IN  /\ setCount < MaxSetOptions
      /\ setCount' = setCount + 1
      /\ options' = this.options
      /\ analyser' = this.analyser
      /\ yinDetector' = this.yinDetector
      /\ UNCHANGED <<calls, outcomes, buffer, given, refs, gameState>>

\* analyzer.analyze(audioBuffer) up to its await: the source is created,
\* connected to the analyser and started, and the arrays are allocated
AnalyzeStart(c, audioBuffer) ==
  /\ calls[c].pc = "idle"
  /\ \A b \in 1..(c - 1) : calls[b].pc # "idle"
  /\ calls' = [calls EXCEPT ![c] = [pc |-> "awaiting",
                                    audioBuffer |-> Some(audioBuffer),
                                    size |-> analyser.fftSize,
                                    detector |-> Some(yinDetector),
                                    result |-> Null]]
  /\ analyser' = [analyser EXCEPT !.inputs[c] = SourceStream(audioBuffer)]
  /\ refs' = [refs EXCEPT !.calls[c].locals = Some(analyzeLocals(c))]
  /\ UNCHANGED <<options, yinDetector, outcomes, buffer, setCount, given, gameState>>

\* analyze call c resumes after its timer: the source is stopped, the
\* analyser is read, and the call returns its result or raises
AnalyzeResume(c) ==
  /\ calls[c].pc = "awaiting"
  /\ LET r == analyze([options |-> options, analyser |-> analyser,
                       yinDetector |-> yinDetector], calls[c])
     IN  /\ calls' = [calls EXCEPT ![c].pc = IF r.threw THEN "failed" ELSE "returned",
                                   ![c].result = r.result]
         /\ refs' = [refs EXCEPT !.calls[c].result =
                                   IF r.threw THEN Null
                                   ELSE Some(analyzeRefs(refs.calls[c].locals[1], c))]
  /\ analyser' = [analyser EXCEPT !.inputs[c] = <<>>]
  /\ UNCHANGED <<options, yinDetector, outcomes, buffer, setCount, given, gameState>>

\* analyzer.analyzeSegment(audioBuffer, startTime, duration) on the buffer
\* of the caller
AnalyzeSegment(startTime, duration) ==
  /\ Len(outcomes) < MaxAnalyses
  /\ outcomes' = Append(outcomes,
                        [op |-> "analyzeSegment", threw |-> FALSE,
                         result |-> Some(analyzeSegment(yinDetector, buffer,
                                                        startTime, duration))])
  /\ refs' = [refs EXCEPT !.outcomes =
                            ((Len(outcomes) + 1) :> analyzeSegmentRefs(buffer, Len(outcomes) + 1))
                              @@ @]
  /\ UNCHANGED <<options, yinDetector, analyser, calls, buffer, setCount, given, gameState>>

\* analyzer.analyzeRealtime()
AnalyzeRealtime ==
  /\ Len(outcomes) < MaxAnalyses
  /\ outcomes' = Append(outcomes,
                        [op |-> "analyzeRealtime", threw |-> FALSE,
                         result |-> Some(analyzeRealtime(yinDetector, analyser))])
  /\ refs' = [refs EXCEPT !.outcomes =
                            ((Len(outcomes) + 1) :> analyzeRealtimeRefs(Len(outcomes) + 1)) @@ @]
  /\ UNCHANGED <<options, yinDetector, analyser, calls, buffer, setCount, given, gameState>>

\* analyzer.detectBPM(audioBuffer) on the buffer of the caller
DetectBPM ==
  /\ Len(outcomes) < MaxAnalyses
  /\ outcomes' = Append(outcomes, [op |-> "detectBPM"] @@ detectBPM(options, buffer))
  /\ UNCHANGED <<options, yinDetector, analyser, calls, buffer, setCount, given, refs, gameState>>

\* analyzer.recognizeChord(frequencyData) on the spectrum bytes of the caller
RecognizeChord ==
  /\ given.frequencyData # Null
  /\ Len(outcomes) < MaxAnalyses
  /\ outcomes' = Append(outcomes,
                        [op |-> "recognizeChord", threw |-> FALSE,
                         result |-> recognizeChord(given.frequencyData[1], SampleRate)])
  /\ UNCHANGED <<options, yinDetector, analyser, calls, buffer, setCount, given, refs, gameState>>

\* ChordRecognizer.calculateChromagram(frequencyData, sampleRate) on the
\* spectrum bytes of the caller
CalculateChromagram ==
  /\ given.frequencyData # Null
  /\ Len(outcomes) < MaxAnalyses
  /\ outcomes' = Append(outcomes,
                        [op |-> "calculateChromagram", threw |-> FALSE,
                         result |-> calculateChromagram(given.frequencyData[1], SampleRate)])
  /\ UNCHANGED <<options, yinDetector, analyser, calls, buffer, setCount, given, refs, gameState>>

\* ChordRecognizer.recognize(chromagram) on the chromagram of the caller
Recognize ==
  /\ given.chromagram # Null
  /\ Len(outcomes) < MaxAnalyses
  /\ outcomes' = Append(outcomes,
                        [op |-> "recognize", threw |-> FALSE,
                         result |-> recognize(given.chromagram[1])])
  /\ UNCHANGED <<options, yinDetector, analyser, calls, buffer, setCount, given, refs, gameState>>

\* analyzer.frequencyToNote(frequency) on the frequency of the caller, which
\* keeps the name returned
FrequencyToNote ==
  /\ given.frequency # Null
  /\ given.note = Null
  /\ given' = [given EXCEPT !.note = Some(frequencyToNote(given.frequency[1]))]
  /\ UNCHANGED <<options, yinDetector, analyser, calls, outcomes, buffer, setCount, refs, gameState>>

\* AudioAnalyzer.noteToFrequency(note) on the note name of the caller
NoteToFrequency ==
  /\ given.note # Null
  /\ Len(outcomes) < MaxAnalyses
  /\ outcomes' = Append(outcomes, [op |-> "noteToFrequency"] @@ noteToFrequency(given.note[1]))
  /\ UNCHANGED <<options, yinDetector, analyser, calls, buffer, setCount, given, refs, gameState>>

\* analyzer.detectPitchAutocorrelation(data) on the samples of the caller
DetectPitchAutocorrelation ==
  /\ given.data # Null
  /\ Len(outcomes) < MaxAnalyses
  /\ outcomes' = Append(outcomes,
                        [op |-> "detectPitchAutocorrelation", threw |-> FALSE,
                         result |-> detectPitchAutocorrelation(
                                      given.data[1], SampleRate,
                                      options.minFrequency, options.maxFrequency)])
  /\ UNCHANGED <<options, yinDetector, analyser, calls, buffer, setCount, given, refs, gameState>>

\* the highest garden level and the largest number of recordings from
\* which the game operations are still taken
MaxGardenLevel == 6

MaxRecordings == 3

\* gameState.addExp(amount)
AddExp(amount) ==
  /\ gameState.instance.gardenLevel < MaxGardenLevel
  /\ gameState' = addExp(gameState, amount)
  /\ UNCHANGED <<options, yinDetector, analyser, calls, outcomes, buffer, setCount, given,
                 refs>>

\* gameState.recordRecording(), elapsed ms after the clock was last read
RecordRecording(elapsed) ==
  /\ gameState.instance.gardenLevel < MaxGardenLevel
  /\ gameState.instance.stats.totalRecordings < MaxRecordings
  /\ gameState' = recordRecording(gameState, elapsed)
  /\ UNCHANGED <<options, yinDetector, analyser, calls, outcomes, buffer, setCount, given,
                 refs>>

\* The places of the result arrays the caller holds: <<"outcome", k, field>>
\* in the result of outcome k, <<"call", c, field>> in that of analyze call c.
ResultPlaces ==
  {<<"outcome", k, f>> : k \in DOMAIN refs.outcomes, f \in {"waveformData", "frequencyData"}}
    \cup {<<"call", c, f>> : c \in {b \in 1..MaxCalls : refs.calls[b].result # Null},
                             f \in {"waveformData", "frequencyData"}}

\* which array a place holds
RefAt(place) ==
  IF place[1] = "outcome" THEN refs.outcomes[place[2]][place[3]]
  ELSE refs.calls[place[2]].result[1][place[3]]

\* the elements read through a place
ContentAt(place) ==
  IF place[1] = "outcome" THEN outcomes[place[2]].result[1][place[3]]
  ELSE calls[place[2]].result[1][place[3]]

\* array[i] = v as seen through a reference ref, when the array written is
\* id: only that array changes, and a write past its end is dropped
Written(array, ref, id, i, v) ==
  IF ref = id /\ i < Len(array) THEN [array EXCEPT ![i + 1] = v] ELSE array

\* a result whose arrays are holds, after array id had element i set to v
WrittenResult(result, holds, id, i, v) ==
  [result EXCEPT !.waveformData = Written(@, holds.waveformData, id, i, v),
                 !.frequencyData = Written(@, holds.frequencyData, id, i, v)]

\* The most result arrays the caller writes to in one behaviour.
MaxWrites == 1

\* the places whose array reads v at element i
PlacesHolding(i, v) ==
  {p \in ResultPlaces : i < Len(ContentAt(p)) /\ ContentAt(p)[i + 1] = v}

\* The caller writes v to element i of the array it holds at place: every
\* reference to that array, in a result or in its AudioBuffer, reads the
\* new element.
WriteResult(place, i, v) ==
  LET id == RefAt(place)
  IN  /\ place \in ResultPlaces
      /\ Cardinality(PlacesHolding(i, v)) < MaxWrites
      /\ outcomes' = [k \in 1..Len(outcomes) |->
                        IF k \in DOMAIN refs.outcomes
                        THEN [outcomes[k] EXCEPT !.result =
                                Some(WrittenResult(outcomes[k].result[1], refs.outcomes[k],
                                                   id, i, v))]
                        ELSE outcomes[k]]
      /\ calls' = [c \in 1..MaxCalls |->
                     IF refs.calls[c].result # Null
                     THEN [calls[c] EXCEPT !.result =
                             Some(WrittenResult(calls[c].result[1], refs.calls[c].result[1],
                                                id, i, v))]
                     ELSE calls[c]]
      /\ buffer' = [buffer EXCEPT !.channels =
                       [ch \in 1..Len(buffer.channels) |->
                          Written(buffer.channels[ch], InputRef(ch), id, i, v)]]
      /\ UNCHANGED <<options, yinDetector, analyser, setCount, given, refs, gameState>>

(***************************************************************************)
(* SpecOptions: construction followed by setOptions calls.                 *)
(***************************************************************************)
InitOptions == \E arg \in CtorArgs : Constructed(arg, Mono(<<0>>), <<>>)

NextOptions == \E arg \in OptionArgs : SetOptions(arg)

SpecOptions == InitOptions /\ [][NextOptions]_vars

\* C1: after construction and after every setOptions call, the threshold,
\* minFrequency and maxFrequency of the detector the analyzer holds are the
\* analyzer's current yinThreshold, minFrequency and maxFrequency options.
C1_DetectorMatchesOptions ==
  /\ yinDetector.sampleRate = SampleRate
  /\ yinDetector.threshold = options.yinThreshold
  /\ yinDetector.minFrequency = options.minFrequency
  /\ yinDetector.maxFrequency = options.maxFrequency

\* a setOptions call that supplied all three fields has rebuilt the detector
\* three times and ended on values none of which is the constructor's
C1_Witness ==
  /\ setCount = 1
  /\ yinDetector.id = 3
  /\ yinDetector.threshold = <<1, 5>>
  /\ yinDetector.minFrequency = 60
  /\ yinDetector.maxFrequency = 50

\* C4 (as stated): the stored options satisfy minFrequency < maxFrequency,
\* minBpm < maxBpm, 0 < yinThreshold < 1 and fftSize > 0 in every state.
C4_StoredOptionsValid ==
  /\ options.minFrequency < options.maxFrequency
  /\ options.minBpm < options.maxBpm
  /\ RGt(options.yinThreshold, R(0)) /\ RLt(options.yinThreshold, R(1))
  /\ options.fftSize > 0

\* what a setOptions call with argument arg leaves alone: the options it
\* omits, the fields of the analyser node it omits, and the detector object
\* when it supplies none of minFrequency, maxFrequency and yinThreshold
OmittedUnchanged(arg) ==
  /\ \A f \in DOMAIN NoOptions : arg[f] = Null => options'[f] = options[f]
  /\ \A f \in {"fftSize", "smoothingTimeConstant"} : arg[f] = Null => analyser'[f] = analyser[f]
  /\ (arg.minFrequency = Null /\ arg.maxFrequency = Null /\ arg.yinThreshold = Null)
       => yinDetector' = yinDetector

\* C13: a setOptions call changes only the option fields present in its
\* argument: every omitted field keeps its value, and a call supplying none
\* of minFrequency, maxFrequency, yinThreshold leaves the detector object
\* unchanged.
C13_OnlyGivenFields ==
  [][\A arg \in OptionArgs : SetOptions(arg) => OmittedUnchanged(arg)]_vars

\* an analyzer constructed with a minFrequency of its own has had one
\* setOptions call, which turned enableAdvanced on: minFrequency and the
\* detector are those of the constructor
C13_Witness ==
  /\ setCount = 1
  /\ options.enableAdvanced
  /\ options.minFrequency = 10
  /\ options.fftSize = 32
  /\ yinDetector.id = 0

(***************************************************************************)
(* SpecWindow: the synchronous operations applied to every short buffer.   *)
(***************************************************************************)
\* sample values: silence and full scale
Samples == {0, 1}

\* the buffers of 1 to MaxLen samples (an AudioBuffer has at least one frame)
Windows == UNION {[1..n -> Samples] : n \in 1..MaxLen}

\* a configuration inside the documented ranges, and one whose threshold is
\* outside (0,1)
WindowCtorArgs ==
  {[NoOptions EXCEPT !.fftSize = Some(32), !.minFrequency = Some(10)],
   [NoOptions EXCEPT !.fftSize = Some(32), !.minFrequency = Some(10),
                     !.maxFrequency = Some(50), !.yinThreshold = Some(R(3))]}

\* (startTime, duration) of the segments asked for, in seconds: the whole
\* buffer, a part of it, and one starting past its end
Segments ==
  {<<R(0), R(1)>>, <<<<1, 50>>, <<3, 100>>>>, <<R(1), R(1)>>}

InitWindow ==
  \E arg \in WindowCtorArgs, samples \in Windows :
    Constructed(arg, Mono(samples), SourceStream(Mono(samples)))

NextWindow ==
  \/ \E seg \in Segments : AnalyzeSegment(seg[1], seg[2])
  \/ AnalyzeRealtime
  \/ DetectBPM

SpecWindow == InitWindow /\ [][NextWindow]_vars

\* the outcomes of operation op
OutcomesOf(op) == {outcomes[k] : k \in {j \in 1..Len(outcomes) : outcomes[j].op = op}}

\* the analysis results a state holds: those of the synchronous analyses,
\* and those the analyze calls returned
Results ==
  {x.result[1] : x \in OutcomesOf("analyzeSegment") \cup OutcomesOf("analyzeRealtime")}
    \cup {calls[c].result[1] : c \in {b \in 1..MaxCalls : calls[b].pc = "returned"}}

IsSilent(data) == \A i \in 1..Len(data) : data[i] = 0

\* C6 (as stated): in every result of analyze, analyzeSegment and
\* analyzeRealtime, pitch and note are both null or both non-null.
C6_PitchAndNoteTogether ==
  \A r \in Results : (r.pitch = Null) <=> (r.note = Null)

\* C8 (as stated): detectBPM never raises, and a result without a tempo has
\* bpm null and no beat positions.
C8_DetectNeverRaises ==
  \A x \in OutcomesOf("detectBPM") :
    /\ ~x.threw
    /\ x.result # Null
    /\ (x.result[1].bpm = Null => x.result[1].beatPositions = <<>>)

\* C9 (as stated): the result for an empty sample window has volume exactly
\* 0 and pitch null.
C9_EmptyWindow ==
  \A r \in Results : r.waveformData = <<>> => r.volume = R(0) /\ r.pitch = Null

\* C10: the result of segment and realtime analysis for a non-empty window
\* of zeros has volume 0, pitch null and note null.
C10_SilentWindow ==
  \A r \in Results :
    r.waveformData # <<>> /\ IsSilent(r.waveformData) =>
      r.volume = R(0) /\ r.pitch = Null /\ r.note = Null

\* a segment of six zeros has been analysed by a detector whose threshold is
\* above every finite normalised difference
C10_Witness ==
  /\ yinDetector.threshold = R(3)
  /\ \E x \in OutcomesOf("analyzeSegment") :
       Len(x.result[1].waveformData) = 6 /\ IsSilent(x.result[1].waveformData)

\* the lags of [minLag, maxLag) whose cmndf is below the threshold
BelowThreshold(cmndf, minLag, maxLag2, threshold) ==
  {t \in minLag..(maxLag2 \div 2) : 2 * t < maxLag2 /\ RLt(At(cmndf, t), threshold)}

\* from lag from to lag to, each next lag is below maxLag and its cmndf is
\* below that of the lag before it
Descends(cmndf, from, to, maxLag2) ==
  \A t \in from..(to - 1) : 2 * (t + 1) < maxLag2 /\ RLt(At(cmndf, t + 1), At(cmndf, t))

\* the smallest lag below the threshold
FirstBelow(cmndf, minLag, maxLag2, threshold) ==
  CHOOSE t \in BelowThreshold(cmndf, minLag, maxLag2, threshold) :
    \A u \in BelowThreshold(cmndf, minLag, maxLag2, threshold) : t <= u

\* the lag the search is to return: -1 when no lag is below the threshold,
\* otherwise the lag the descent from the smallest such lag stops at
ExpectedLag(cmndf, minLag, maxLag2, threshold) ==
  IF BelowThreshold(cmndf, minLag, maxLag2, threshold) = {} THEN -1
  ELSE LET first == FirstBelow(cmndf, minLag, maxLag2, threshold)
       IN  CHOOSE u \in first..(maxLag2 \div 2) :
             Descends(cmndf, first, u, maxLag2) /\ ~Descends(cmndf, first, u + 1, maxLag2)

\* C20: the threshold search of the detector returns the lag reached from
\* the smallest tau in [minLag, maxLag) with cmndf[tau] below the threshold
\* by advancing while tau + 1 < maxLag and cmndf[tau + 1] < cmndf[tau]; that
\* lag lies in [minLag, maxLag) and its cmndf is below the threshold; when
\* no tau of the range is below the threshold the detector reports no pitch.
C20_ThresholdSearch ==
  \A r \in Results :
    LET cmndf == CmndfOf(yinDetector, r.waveformData)
        minLag == MinLagOf(yinDetector)
        maxLag2 == MaxLag2Of(yinDetector, Len(r.waveformData))
        expected == ExpectedLag(cmndf, minLag, maxLag2, yinDetector.threshold)
        lag == LagOf(yinDetector, r.waveformData)
    IN  /\ lag = expected
        /\ lag # -1 => /\ minLag <= lag
                       /\ 2 * lag < maxLag2
                       /\ RLt(At(cmndf, lag), yinDetector.threshold)
        /\ expected = -1 => r.pitch = Null

\* a result carries a pitch found at a lag the search reached by descending
\* from the first lag below the threshold
C20_Witness ==
  \E r \in Results :
    LET cmndf == CmndfOf(yinDetector, r.waveformData)
        minLag == MinLagOf(yinDetector)
        maxLag2 == MaxLag2Of(yinDetector, Len(r.waveformData))
    IN  /\ r.pitch # Null
        /\ BelowThreshold(cmndf, minLag, maxLag2, yinDetector.threshold) # {}
        /\ LagOf(yinDetector, r.waveformData)
             > FirstBelow(cmndf, minLag, maxLag2, yinDetector.threshold)

\* C21 (as stated): every pitch a result carries is a number within
\* [minFrequency, maxFrequency] of the detector that found it, also when
\* the parabolic interpolation has moved the lag.
C21_PitchWithinBounds ==
  \A r \in Results :
    r.pitch # Null =>
      /\ ~IsNaN(r.pitch[1])
      /\ ~RLt(r.pitch[1], R(yinDetector.minFrequency))
      /\ ~RGt(r.pitch[1], R(yinDetector.maxFrequency))

(***************************************************************************)
(* SpecChord: the chord operations applied to spectra and chromagrams.     *)
(***************************************************************************)
\* the length of the spectra handed to the chord operations
BinCount == 4

\* byte values of a spectrum bin: nothing, something, everything
Bytes == {0, 100, 255}

\* the length of the spectra whose first bin lies below MIDI note 0
LowBinCount == 8

\* spectra of LowBinCount bins with energy in bin 1 (below MIDI note 0), in
\* bin 2 and in the last bin only
LowSpectra ==
  {[i \in 1..LowBinCount |->
      IF i = 2 THEN a ELSE IF i = 3 THEN b ELSE IF i = LowBinCount THEN c ELSE 0] :
     a \in Bytes, b \in Bytes, c \in {0, 255}}

\* the spectra: none at all (a Uint8Array(0)), every one of BinCount bins
\* and the ones of LowSpectra
FrequencyDatas == {<<>>} \cup [1..BinCount -> Bytes] \cup LowSpectra

\* the most pitch classes a chromagram of ChromaSets carries energy at
MaxNotes == 2

\* the pitch classes of the six templates on the root C
ChromaBase == {0, 2, 3, 4, 5, 6, 7, 8}

\* sets of at most MaxNotes of these pitch classes
ChromaSets == {S \in SUBSET ChromaBase : Cardinality(S) <= MaxNotes}

\* levels of a chromagram entry: the one calculateChromagram gives its
\* largest entry, and ones only a caller of recognize can pass
Levels == {R(1), R(2), R(-1)}

\* the chromagrams handed to recognize: one level at the pitch classes of a
\* set and nothing elsewhere, the same with half the level at B, and one
\* level everywhere
Chromagrams ==
  {[i \in 1..12 |-> IF (i - 1) \in S THEN v ELSE R(0)] : S \in ChromaSets, v \in Levels}
    \cup {[i \in 1..12 |-> IF (i - 1) \in S THEN R(1)
                            ELSE IF i = 12 THEN <<1, 2>> ELSE R(0)] : S \in ChromaSets}
    \cup {[i \in 1..12 |-> v] : v \in Levels}

ChordInputs ==
  {[NoInput EXCEPT !.frequencyData = Some(f)] : f \in FrequencyDatas}
    \cup {[NoInput EXCEPT !.chromagram = Some(ch)] : ch \in Chromagrams}

InitChord ==
  \E input \in ChordInputs : ConstructedWith(NoOptions, Mono(<<0>>), <<>>, input)

NextChord == RecognizeChord \/ CalculateChromagram \/ Recognize

SpecChord == InitChord /\ [][NextChord]_vars

\* a chromagram without energy: twelve zeros
NoEnergy(chromagram) == \A i \in 1..Len(chromagram) : chromagram[i] = R(0)

\* C11 (as stated): recognize returns null for a chromagram whose twelve
\* bins are all zero.
C11_NoChordWithoutEnergy ==
  \A x \in OutcomesOf("recognize") :
    NoEnergy(given.chromagram[1]) => x.result = Null

\* the chromagram a recognize or recognizeChord call worked on
ChromagramGiven ==
  IF given.chromagram # Null THEN given.chromagram[1]
  ELSE calculateChromagram(given.frequencyData[1], SampleRate)

\* the chords returned by recognize and recognizeChord, null included
ChordsReturned == {x.result : x \in OutcomesOf("recognize") \cup OutcomesOf("recognizeChord")}

\* the (root, template) pairs in iteration order: pair k is root
\* (k - 1) div 6 with the template number ((k - 1) mod 6) + 1 of the declaration
PairRoot(k) == (k - 1) \div 6

PairTemplate(k) == CHORD_TEMPLATES[((k - 1) % 6) + 1]

PairScores(chromagram) ==
  Arr([k \in 1..72 |-> matchTemplate(chromagram, PairRoot(k), PairTemplate(k).intervals)])

\* the first pair in iteration order whose score no pair exceeds
FirstBestPair(scores) ==
  CHOOSE k \in 1..72 :
    /\ \A j \in 1..72 : ~RGt(scores[j], scores[k])
    /\ \A j \in 1..(k - 1) : RLt(scores[j], scores[k])

\* the names of the pitch classes of template at root
TemplateNotes(root, template) ==
  [n \in 1..Len(template.intervals) |-> NOTE_NAMES[((root + template.intervals[n]) % 12) + 1]]

\* the quality a template reports
TemplateQuality(template) ==
  IF template.type \in {"suspended4", "suspended2"} THEN "suspended" ELSE template.type

\* chord is the chord of pair k
IsChordOf(chord, k) ==
  /\ chord.root = NOTE_NAMES[PairRoot(k) + 1]
  /\ chord.notes = TemplateNotes(PairRoot(k), PairTemplate(k))
  /\ chord.type = TemplateQuality(PairTemplate(k))

\* C16: recognize returns the (root, template) pair with the maximum
\* template score over the 12 roots and 6 templates, and among pairs that
\* share the maximum the first in iteration order: roots 0..11, and within a
\* root the templates in declaration order.
C16_FirstMaximum ==
  \A chord \in ChordsReturned :
    /\ chord # Null
    /\ IsChordOf(chord[1], FirstBestPair(PairScores(ChromagramGiven)))

\* recognize was handed a chromagram with energy at C only, on which the six
\* templates on the root C share the maximum, and returned C major
C16_Witness ==
  /\ given.chromagram = Some([i \in 1..12 |-> IF i = 1 THEN R(1) ELSE R(0)])
  /\ \E x \in OutcomesOf("recognize") :
       x.result # Null /\ x.result[1].root = <<"C">> /\ x.result[1].type = "major"

\* C17: every chord recognize returns is that of one of the six declared
\* templates on one of the twelve roots: its root is the name of the root,
\* its notes are the names of the template's pitch classes in order, and its
\* type is the template's quality, 'suspended' for both suspended templates
\* and never 'unknown'.
C17_DeclaredTemplate ==
  \A chord \in ChordsReturned :
    chord # Null =>
      /\ chord[1].type # "unknown"
      /\ \E k \in 1..72 : IsChordOf(chord[1], k)

\* recognize has returned the chord of the last declared template, suspended2
C17_Witness ==
  \E x \in OutcomesOf("recognize") :
    /\ x.result # Null
    /\ x.result[1].type = "suspended"
    /\ x.result[1].notes = << <<"C">>, <<"D">>, <<"G">> >>

\* C18 (as stated): the confidence of the chord recognize returns is the
\* best score divided by 3, whatever the score.
C18_ConfidenceUnclamped ==
  \A x \in OutcomesOf("recognize") :
    x.result # Null =>
      LET scores == PairScores(given.chromagram[1])
      IN  x.result[1].confidence = RDiv(scores[FirstBestPair(scores)], R(3))

\* a pitch class received energy: a bin that adds to one holds a byte above 0
ReceivedEnergy(frequencyData) ==
  \E i \in 0..(Len(frequencyData) - 1) :
    BinPitchClass(i, Len(frequencyData), SampleRate) >= 0 /\ frequencyData[i + 1] > 0

\* C19: a chromagram calculateChromagram returns has 12 entries, each in
\* [0, 1]; its largest entry is exactly 1 when a pitch class received
\* energy, and all its entries are 0 when none did.
C19_ChromagramRange ==
  \A x \in OutcomesOf("calculateChromagram") :
    /\ Len(x.result) = 12
    /\ \A i \in 1..12 : ~RLt(x.result[i], R(0)) /\ ~RGt(x.result[i], R(1))
    /\ IF ReceivedEnergy(given.frequencyData[1])
       THEN \E i \in 1..12 : x.result[i] = R(1)
       ELSE \A i \in 1..12 : x.result[i] = R(0)

\* calculateChromagram was handed a spectrum with more energy in the bin of
\* D than in a bin of G, and returned 1 at D and 100/255 at G
C19_Witness ==
  /\ given.frequencyData = Some(<<255, 100, 0, 255>>)
  /\ \E x \in OutcomesOf("calculateChromagram") :
       x.result[3] = R(1) /\ x.result[8] = <<20, 51>>

\* round(69 + 12 * log2(f / 440)) mod 12 taken in 0..11 for bin i > 0
PitchClassInRange(i, binCount, sampleRate) ==
  LET noteIndex == NoteIndex(RNorm(i * sampleRate, 2 * binCount))
  IN  ((noteIndex % 12) + 12) % 12

\* the chromagram with the magnitude of every bin of frequency > 0 added to
\* the bucket PitchClassInRange gives, normalised by its largest entry
ChromagramOfEveryBin(frequencyData, sampleRate) ==
  LET binCount == Len(frequencyData)
      raw == Arr([pc \in 1..12 |->
                    SumTo([i \in 0..(binCount - 1) |->
                             IF i > 0 /\ PitchClassInRange(i, binCount, sampleRate) = pc - 1
                             THEN frequencyData[i + 1] ELSE 0],
                          binCount)])
      max == MaxOf(raw, 12)
  IN  Arr([pc \in 1..12 |-> IF max > 0 THEN RNorm(raw[pc], max) ELSE R(raw[pc])])

\* C26 (as stated): calculateChromagram adds the magnitude of every bin
\* whose frequency is above 0 to the bucket round(69 + 12 * log2(f / 440))
\* mod 12 taken in 0..11, and skips only the bins of frequency <= 0.
C26_EveryBinCounted ==
  \A x \in OutcomesOf("calculateChromagram") :
    x.result = ChromagramOfEveryBin(given.frequencyData[1], SampleRate)

(***************************************************************************)
(* SpecNote: frequencies mapped to note names, and note names, among them  *)
(* the ones returned, mapped to frequencies.                               *)
(***************************************************************************)
\* frequencies in Hz, from below the lowest note with octave 0 to above
\* the highest with octave 9
Frequencies ==
  {R(f) : f \in {1, 5, 8, 9, 12, 15, 16, 17, 20, 27, 55, 110, 220, 261, 262, 427, 428,
                  440, 452, 453, 466, 880, 4186, 5000, 8000, 15000, 15804, 15805,
                  16000, 17000, 20000, 22050}}
    \cup {<<25, 2>>, <<163, 10>>, <<4401, 10>>}

\* the longest of the note names enumerated
MaxNoteLen == 3

NoteChars == {"A", "G", "H", "b", "#", "-", "4", "1"}

\* every string of at most MaxNoteLen of these characters, and some others
NoteStrings ==
  UNION {[1..n -> NoteChars] : n \in 0..MaxNoteLen}
    \cup {<<"C", "#", "1", "0">>, <<"E", "#", "4">>, <<"a", "4">>, <<"A", " ", "4">>,
          <<" ", "A", "4">>, <<"A", "4", " ">>, <<"C", "9">>, <<"B", "0">>,
          StrUndefined \o <<"-", "2">>}

NoteInputs ==
  {[NoInput EXCEPT !.frequency = Some(f)] : f \in Frequencies}
    \cup {[NoInput EXCEPT !.note = Some(n)] : n \in NoteStrings}

InitNote ==
  \E input \in NoteInputs : ConstructedWith(NoOptions, Mono(<<0>>), <<>>, input)

NextNote == FrequencyToNote \/ NoteToFrequency

SpecNote == InitNote /\ [][NextNote]_vars

\* C14 (as stated): noteToFrequency accepts every name frequencyToNote
\* returns, for every frequency above 0, and returns a frequency within one
\* semitone of the frequency: the note it returns is the note the frequency
\* rounds to or a neighbour of it.
C14_RoundTrip ==
  \A x \in OutcomesOf("noteToFrequency") :
    given.frequency # Null =>
      /\ ~x.threw
      /\ x.result # Null
      /\ Abs(x.result[1] + 69 - NoteIndex(given.frequency[1])) <= 1

IsDigits(str) == Len(str) >= 1 /\ \A i \in 1..Len(str) : \E d \in 1..10 : DigitChars[d] = str[i]

\* a pitch letter, an optional '#' and an octave number
IsNoteFormat(str) ==
  /\ Len(str) >= 2
  /\ str[1] \in {"A", "B", "C", "D", "E", "F", "G"}
  /\ LET rest == IF str[2] = "#" THEN Slice(str, 2, Len(str)) ELSE Slice(str, 1, Len(str))
         number == IF rest # <<>> /\ rest[1] = "-" THEN Slice(rest, 1, Len(rest)) ELSE rest
     IN  IsDigits(number)

\* C15: noteToFrequency raises an error for every string that is not a
\* pitch letter, an optional '#' and an octave number, and returns no
\* frequency for it.
C15_RejectsMalformed ==
  \A x \in OutcomesOf("noteToFrequency") :
    ~IsNoteFormat(given.note[1]) => x.threw /\ x.result = Null

\* noteToFrequency has been called with a name whose letter is no pitch
\* letter and whose last character is a digit, and raised
C15_Witness ==
  /\ given.note = Some(<<"H", "#", "4">>)
  /\ \E x \in OutcomesOf("noteToFrequency") : x.threw

(***************************************************************************)
(* SpecArrays: the analyses of one buffer, and the caller writing to the   *)
(* arrays of the results.                                                  *)
(***************************************************************************)
\* a buffer of one channel, which analyzeSegment reads through
\* getChannelData(0): the array it slices is the caller's own
ArrayBuffers == {Mono(<<1, 0, 1, 0>>)}

\* the element the caller writes, and a value no array holds before
WriteIndexes == {0}

WriteValues == {7}

InitArrays ==
  \E audioBuffer \in ArrayBuffers :
    Constructed([NoOptions EXCEPT !.fftSize = Some(32)], audioBuffer, <<>>)

NextArrays ==
  \/ \E c \in 1..MaxCalls : AnalyzeStart(c, buffer)
  \/ \E c \in 1..MaxCalls : AnalyzeResume(c)
  \/ AnalyzeSegment(R(0), R(1))
  \/ AnalyzeRealtime
  \/ \E place \in ResultPlaces, i \in WriteIndexes, v \in WriteValues :
       WriteResult(place, i, v)

SpecArrays == InitArrays /\ [][NextArrays]_vars

\* the arrays the analyzer itself holds on to: those an analyze call
\* allocated before its await
RetainedRefs ==
  UNION {{refs.calls[c].locals[1].waveformData, refs.calls[c].locals[1].frequencyData} :
           c \in {b \in 1..MaxCalls : refs.calls[b].locals # Null}}

\* no array of a result is an array of another place, a channel of the
\* buffer of the caller or an array the analyzer holds on to
FreshArrays ==
  \A p \in ResultPlaces :
    /\ \A q \in ResultPlaces : q # p => RefAt(q) # RefAt(p)
    /\ \A ch \in 1..Len(buffer.channels) : RefAt(p) # InputRef(ch)
    /\ RefAt(p) \notin RetainedRefs

\* a step leaves the elements of every result array as they were unless it
\* is a write to that very place, and leaves the buffer of the caller alone
WritesStayLocal ==
  /\ \A p \in ResultPlaces :
       \/ ContentAt(p)' = ContentAt(p)
       \/ \E i \in WriteIndexes, v \in WriteValues : WriteResult(p, i, v)
  /\ buffer' = buffer

\* C12: the waveform and spectrum arrays of a result of analyze,
\* analyzeSegment or analyzeRealtime are fresh copies: none is the caller's
\* channel data, an array the analyzer holds on to or an array of another
\* result, so no later analysis and no write to one of them changes another.
C12_FreshCopies == []FreshArrays /\ [][WritesStayLocal]_vars

\* the caller has written to the waveform of a segment result, and its
\* buffer and the waveform an analyze call returned read as before
C12_Witness ==
  /\ 1 \in DOMAIN refs.outcomes
  /\ outcomes[1].op = "analyzeSegment"
  /\ outcomes[1].result[1].waveformData[1] = 7
  /\ buffer.channels[1][1] = 1
  /\ \E c \in 1..MaxCalls :
       calls[c].pc = "returned" /\ calls[c].result[1].waveformData[1] = 1

(***************************************************************************)
(* SpecBpm: detectBPM applied to short buffers under tempo bounds whose    *)
(* lags fit them, and to click tracks under the default bounds.            *)
(***************************************************************************)
\* The longest buffer of arbitrary samples handed to detectBPM.
MaxBeatLen == 11
\* The length of the click tracks.
ClickTrackLen == 80

\* every buffer of up to MaxBeatLen samples
ShortBuffers ==
  {Mono(samples) : samples \in UNION {[1..n -> Samples] : n \in 1..MaxBeatLen}}

\* tracks of one full-scale sample every 33 and every 50 samples
ClickTracks ==
  {Mono([i \in 1..ClickTrackLen |-> IF (i - 1) % period = 0 THEN 1 ELSE 0]) :
     period \in {33, 50}}

\* onsets of several strengths: the rise to full energy at frame 7 is below
\* 30% of the strongest onset
Rhythm == Mono(<<0, 0, 0, 0, 1, 1, 0, 1, 1, 1, 1, 0, 0, 0, 0, 1, 0, 0, 0, 0>>)

\* tempo bounds whose lags are 2..10, and bounds whose lags are 3..5
FastBpmArgs ==
  {[NoOptions EXCEPT !.minBpm = Some(600), !.maxBpm = Some(3000)],
   [NoOptions EXCEPT !.minBpm = Some(1200), !.maxBpm = Some(1800)]}

\* the short buffers and the rhythm under the fast bounds, the click tracks and the
\* shortest buffers under the default bounds (lags 33..100), and a buffer
\* with three onsets under bounds whose lags start at 0
InitBpm ==
  \/ \E arg \in FastBpmArgs, audioBuffer \in ShortBuffers \cup {Rhythm} :
       Constructed(arg, audioBuffer, <<>>)
  \/ \E audioBuffer \in ClickTracks \cup {Mono(<<1>>), Mono(<<0, 1, 0, 0, 1>>)} :
       Constructed(NoOptions, audioBuffer, <<>>)
  \/ Constructed([NoOptions EXCEPT !.maxBpm = Some(12000)],
                 Mono(<<0, 0, 0, 0, 1, 0, 0, 1, 0, 1, 0>>), <<>>)

NextBpm == DetectBPM

SpecBpm == InitBpm /\ [][NextBpm]_vars

\* the detector detectBPM builds for the buffer of the caller
BpmDetectorGiven == BPMDetector(buffer.sampleRate, options.minBpm, options.maxBpm)

\* the results detectBPM has returned
BpmResults == {x.result[1] : x \in {y \in OutcomesOf("detectBPM") : ~y.threw}}

\* the autocorrelation of the onset curve of the buffer of the caller
BpmAutocorrGiven == autocorrelate(DiffEnvelopeOf(BpmDetectorGiven, buffer))

\* the lags of [minLag, maxLag] inside the autocorrelation array that no lag
\* within 2 frames exceeds
PeakLags ==
  LET ac == BpmAutocorrGiven
  IN  {lag \in BpmMinLagOf(BpmDetectorGiven)..Min2(BpmMaxLagOf(BpmDetectorGiven), Len(ac) - 1) :
         \A i \in (lag - 2)..(lag + 2) : i >= 0 /\ i < Len(ac) => ac[i + 1] <= ac[lag + 1]}

\* those of them whose autocorrelation value is greater than 0
PositivePeakLags ==
  LET ac == BpmAutocorrGiven
  IN  {lag \in PeakLags : ac[lag + 1] > 0}

\* the smallest lag of lags with the highest autocorrelation value
FirstHighest(lags) ==
  LET ac == BpmAutocorrGiven
  IN  CHOOSE lag \in lags :
        \A other \in lags :
          \/ ac[other + 1] < ac[lag + 1]
          \/ ac[other + 1] = ac[lag + 1] /\ lag <= other

\* bpm is the whole number nearest to the tempo of lag, 60 / (lag * hopSize / sampleRate)
IsTempoOf(bpm, lag) ==
  LET hopSize == buffer.sampleRate \div 100
  IN  /\ bpm # Null
      /\ 2 * (bpm[1] * lag * hopSize - 60 * buffer.sampleRate) <= lag * hopSize
      /\ 2 * (60 * buffer.sampleRate - bpm[1] * lag * hopSize) < lag * hopSize

\* C23 (as stated): when some lag of [minLag, maxLag] inside the
\* autocorrelation array is exceeded by no lag within 2 frames, detection
\* selects the smallest of those lags with the highest autocorrelation value.
C23_HighestPeakLag ==
  BpmResults # {} /\ PeakLags # {} =>
    /\ BestLagOf(BpmDetectorGiven, buffer) = FirstHighest(PeakLags)
    /\ \A r \in BpmResults : IsTempoOf(r.bpm, FirstHighest(PeakLags))

\* C23 (amended): detection selects the smallest of the lags with the
\* highest autocorrelation value among the lags of [minLag, maxLag] inside
\* the autocorrelation array whose value is greater than 0 and that no lag
\* within 2 frames exceeds, and returns its tempo; when there is no such
\* lag it selects none and returns no tempo, as it does for the lag 0.
C23_HighestPositivePeakLag ==
  BpmResults # {} =>
    LET lags == PositivePeakLags
        first == FirstHighest(lags)
    IN  IF lags = {}
        THEN /\ BestLagOf(BpmDetectorGiven, buffer) = 0
             /\ \A r \in BpmResults : r.bpm = Null
        ELSE /\ BestLagOf(BpmDetectorGiven, buffer) = first
             /\ \A r \in BpmResults :
                  IF first > 0 THEN IsTempoOf(r.bpm, first) ELSE r.bpm = Null

\* a tempo has been returned for a buffer with two positive peak lags of
\* the same highest value
C23_Witness ==
  /\ \E r \in BpmResults : r.bpm # Null
  /\ \E lag \in PositivePeakLags :
       /\ lag > FirstHighest(PositivePeakLags)
       /\ BpmAutocorrGiven[lag + 1] = BpmAutocorrGiven[FirstHighest(PositivePeakLags) + 1]

\* C24 (as stated): detectBPM returns bpm = null exactly when no lag of the
\* search band qualifies (none has a positive autocorrelation value that no
\* lag within 2 frames exceeds), and whenever bpm is null the beatPositions
\* returned are empty.
C24_NullIffNoLag ==
  \A x \in OutcomesOf("detectBPM") :
    /\ ~x.threw
    /\ x.result[1].bpm = Null <=> PositivePeakLags = {}
    /\ x.result[1].bpm = Null => x.result[1].beatPositions = <<>>

\* the onset curve of the buffer of the caller
OnsetGiven == DiffEnvelopeOf(BpmDetectorGiven, buffer)

\* the interior frames of the onset curve that are above both neighbours
OnsetPeaks ==
  LET d == OnsetGiven
  IN  {i \in 1..(Len(d) - 2) : d[i + 1] > d[i] /\ d[i + 1] > d[i + 2]}

\* those of them above 30% of the highest onset strength
BeatFrames ==
  LET d == OnsetGiven
  IN  {i \in OnsetPeaks : \E j \in 1..Len(d) :
                            /\ \A k \in 1..Len(d) : d[k] <= d[j]
                            /\ 10 * d[i + 1] > 3 * d[j]}

\* C25: the beatPositions detectBPM returns are strictly ascending; each is
\* i * hopSize / sampleRate for an interior frame i whose onset strength is
\* above both neighbours and above 30% of the maximum of the onset curve;
\* and when a lag was chosen, whichever it is, every such frame is there.
C25_BeatPositions ==
  \A r \in BpmResults :
    LET hopSize == buffer.sampleRate \div 100
        positions == r.beatPositions
    IN  /\ \A k \in 1..(Len(positions) - 1) : RLt(positions[k], positions[k + 1])
        /\ \A k \in 1..Len(positions) :
             \E i \in BeatFrames : positions[k] = RDiv(R(i * hopSize), R(buffer.sampleRate))
        /\ r.bpm # Null =>
             \A i \in BeatFrames :
               \E k \in 1..Len(positions) :
                 positions[k] = RDiv(R(i * hopSize), R(buffer.sampleRate))

\* a tempo has been returned with two beat positions at least, for an onset
\* curve with a peak that is not above 30% of the maximum
C25_Witness ==
  \E r \in BpmResults :
    /\ r.bpm # Null
    /\ Len(r.beatPositions) >= 2
    /\ OnsetPeaks # BeatFrames

\* C28 (as stated): every tempo detectBPM returns lies within
\* [minBpm, maxBpm] of the options.
C28_BpmWithinBounds ==
  \A r \in BpmResults :
    r.bpm # Null => options.minBpm <= r.bpm[1] /\ r.bpm[1] <= options.maxBpm

(***************************************************************************)
(* SpecAutocorr: the autocorrelation detector applied to sample windows.  *)
(***************************************************************************)
\* The longest window handed to the autocorrelation detector.
MaxDataLen == 12

\* the windows of up to MaxLen samples of silence and full scale, and the
\* windows of MaxDataLen samples that repeat a pattern of four samples of
\* either sign and of two sizes
DataWindows ==
  UNION {[1..n -> Samples] : n \in 0..MaxLen}
    \cup {[i \in 1..MaxDataLen |-> pattern[((i - 1) % 4) + 1]] :
            pattern \in [1..4 -> {-1, 0, 1, 2}]}

\* search bounds whose lags fit the windows: minLag 2, minLag 3, and the
\* default maxFrequency, above the sample rate (minLag 0)
AutocorrCtorArgs ==
  {[NoOptions EXCEPT !.minFrequency = Some(10), !.maxFrequency = Some(50)],
   [NoOptions EXCEPT !.minFrequency = Some(10), !.maxFrequency = Some(30)],
   [NoOptions EXCEPT !.minFrequency = Some(10)]}

InitAutocorr ==
  \E arg \in AutocorrCtorArgs, data \in DataWindows :
    ConstructedWith(arg, Mono(<<0>>), <<>>, [NoInput EXCEPT !.data = Some(data)])

NextAutocorr == DetectPitchAutocorrelation

SpecAutocorr == InitAutocorr /\ [][NextAutocorr]_vars

\* the autocorrelation array the detector computes for the window given
AutocorrGiven ==
  Autocorr(given.data[1], Len(given.data[1]),
           Min2(2 * FloorDiv(SampleRate, options.minFrequency), Len(given.data[1])))

\* the lags of the search range, minLag <= lag < maxLag - 1, that are a
\* strict local peak of the autocorrelation above half of autocorr[0]
SignificantPeaks ==
  LET ac == AutocorrGiven
  IN  {lag \in FloorDiv(SampleRate, options.maxFrequency)..(Len(ac) - 1) :
         /\ 2 * lag < Min2(2 * FloorDiv(SampleRate, options.minFrequency),
                           Len(given.data[1])) - 2
         /\ RGt(At(ac, lag), At(ac, lag - 1))
         /\ RGt(At(ac, lag), At(ac, lag + 1))
         /\ RGt(At(ac, lag), RMul(<<1, 2>>, At(ac, 0)))}

\* the smallest significant peak
FirstPeak == CHOOSE lag \in SignificantPeaks : \A other \in SignificantPeaks : lag <= other

\* C22: the autocorrelation detector returns null when no lag of the search
\* range is a strict local peak above 0.5 * ac[0]; otherwise it returns the
\* pitch of the smallest such lag, not of the highest peak: the frequency
\* is sampleRate over that lag moved by the parabolic offset, and the
\* confidence is ac[lag] / ac[0].
C22_FirstSignificantPeak ==
  \A x \in OutcomesOf("detectPitchAutocorrelation") :
    IF SignificantPeaks = {} THEN x.result = Null
    ELSE /\ x.result # Null
         /\ x.result[1].confidence = RDiv(At(AutocorrGiven, FirstPeak), At(AutocorrGiven, 0))
         /\ x.result[1].frequency
              = RDiv(R(SampleRate),
                     RAdd(R(FirstPeak), PeakOffset(AutocorrGiven, FirstPeak)))

\* the detector has returned a pitch for a window with two significant
\* peaks, the later one the higher
C22_Witness ==
  /\ OutcomesOf("detectPitchAutocorrelation") # {}
  /\ \E later \in SignificantPeaks :
       /\ later > FirstPeak
       /\ RGt(At(AutocorrGiven, later), At(AutocorrGiven, FirstPeak))
  /\ \A x \in OutcomesOf("detectPitchAutocorrelation") : x.result # Null

\* C29 (as stated): every frequency the autocorrelation detector of the
\* analyzer returns lies within [minFrequency, maxFrequency] of the options.
C29_AutocorrWithinBounds ==
  \A x \in OutcomesOf("detectPitchAutocorrelation") :
    x.result # Null =>
      /\ ~RLt(x.result[1].frequency, R(options.minFrequency))
      /\ ~RGt(x.result[1].frequency, R(options.maxFrequency))

(***************************************************************************)
(* SpecAdvanced: analyze calls with the advanced stage enabled.            *)
(***************************************************************************)
\* the shortest buffer the BPM detector takes: one 40 ms window
MinAdvancedLen == 4

\* the longest of the short buffers handed to analyze
MaxAdvancedLen == 5

\* a hum of period 4 (25 Hz) as long as the window of the analyser
Hum == Mono([i \in 1..32 |-> IF i % 4 \in {1, 2} THEN 1 ELSE 0])

\* the buffers of MinAdvancedLen to MaxAdvancedLen samples, and the hum
AdvancedBuffers ==
  {Mono(samples) :
     samples \in UNION {[1..n -> Samples] : n \in MinAdvancedLen..MaxAdvancedLen}}
    \cup {Hum}

\* enableAdvanced set, with a configuration inside the documented ranges and
\* with one whose threshold is outside (0,1)
AdvancedCtorArgs ==
  {[NoOptions EXCEPT !.fftSize = Some(32), !.minFrequency = Some(10),
                     !.enableAdvanced = Some(TRUE)],
   [NoOptions EXCEPT !.fftSize = Some(32), !.minFrequency = Some(10),
                     !.maxFrequency = Some(50), !.yinThreshold = Some(R(3)),
                     !.enableAdvanced = Some(TRUE)]}

InitAdvanced ==
  \E arg \in AdvancedCtorArgs, audioBuffer \in AdvancedBuffers :
    Constructed(arg, audioBuffer, <<>>)

NextAdvanced ==
  \/ \E c \in 1..MaxCalls : AnalyzeStart(c, buffer)
  \/ \E c \in 1..MaxCalls : AnalyzeResume(c)

SpecAdvanced == InitAdvanced /\ [][NextAdvanced]_vars

\* the analyze calls that returned a result with its advanced part
AdvancedCalls ==
  {c \in 1..MaxCalls : calls[c].pc = "returned" /\ calls[c].result[1].advanced # Null}

\* C27 (as stated): the pitchConfidence of an advanced result lies in
\* [0, 1]; it is 1 - cmndf[tau] of the YIN detection that produced the pitch
\* of the result, and 0 when that detection found no pitch.
C27_PitchConfidence ==
  \A c \in AdvancedCalls :
    LET result == calls[c].result[1]
        det == calls[c].detector[1]
        pitchConfidence == result.advanced[1].pitchConfidence
    IN  /\ ~IsNaN(pitchConfidence)
        /\ ~RLt(pitchConfidence, R(0))
        /\ ~RGt(pitchConfidence, R(1))
        /\ pitchConfidence
             = IF result.pitch = Null THEN R(0)
               ELSE RSub(R(1), At(CmndfOf(det, result.waveformData),
                                  LagOf(det, result.waveformData)))

(***************************************************************************)
(* SpecGame: addExp and recordRecording calls on the game state.           *)
(***************************************************************************)
\* the experience handed to addExp
Amounts == {0, 10, 100, 250}

\* the ms between two readings of the clock: a second, a minute
Elapsed == {1000, 60000}

\* the item of localStorage when the page loads: none, or the one saved by
\* an earlier page in which one recording was made
SavedGames == {Null, recordRecording(getInstance(Null), 1000).localStorage}

InitGame ==
  /\ AnalyzerConstructedWith(NoOptions, Mono(<<0>>), <<>>, NoInput)
  /\ \E saved \in SavedGames : gameState = getInstance(saved)

NextGame ==
  \/ \E amount \in Amounts : AddExp(amount)
  \/ \E elapsed \in Elapsed : RecordRecording(elapsed)

SpecGame == InitGame /\ [][NextGame]_vars

\* C30 (as stated): after any sequence of addExp(amount >= 0) and
\* recordRecording calls, 0 <= gardenExp < expToNextLevel: a single addExp
\* applies every level-up the accumulated experience pays for.
C30_ExpBelowNextLevel ==
  /\ 0 <= gameState.instance.gardenExp
  /\ gameState.instance.gardenExp < gameState.instance.expToNextLevel

(***************************************************************************)
(* Spec: analyze calls in flight, setOptions calls and synchronous         *)
(* analyses on one analyzer.                                                *)
(***************************************************************************)
\* a tone of period 2 (50 Hz) as long as the window of the analyser
Tone == Mono([i \in 1..32 |-> IF i % 2 = 1 THEN 1 ELSE -1])

\* a buffer shorter than the 40 ms energy window of the BPM detector
Brief == Mono(<<1, 0, -1>>)

\* two channels whose mean is a tone of period 4
Stereo ==
  AudioBuffer(<< <<1, 1, -1, -1, 1, 1, -1, -1>>, <<1, -1, -1, 1, 1, -1, -1, 1>> >>)

TestBuffers == {Tone, Brief}

\* a constructor argument that leaves enableAdvanced to its default
AsyncCtorArgs ==
  {[NoOptions EXCEPT !.fftSize = Some(32), !.minFrequency = Some(10)]}

AsyncArgs ==
  {[NoOptions EXCEPT !.minFrequency = Some(60)],
   [NoOptions EXCEPT !.enableAdvanced = Some(TRUE)]}

Init == \E arg \in AsyncCtorArgs : Constructed(arg, Stereo, <<>>)

Next ==
  \/ \E arg \in AsyncArgs : SetOptions(arg)
  \/ \E c \in 1..MaxCalls, audioBuffer \in TestBuffers : AnalyzeStart(c, audioBuffer)
  \/ \E c \in 1..MaxCalls : AnalyzeResume(c)
  \/ AnalyzeSegment(R(0), R(1))
  \/ AnalyzeRealtime

Spec == Init /\ [][Next]_vars

\* C2 (as stated): the pitch an analyze call returns is the one the detector
\* the analyzer held when the call started finds in the call's waveform.
C2_DetectorOfStart ==
  \A c \in 1..MaxCalls :
    calls[c].pc = "returned" =>
      calls[c].result[1].pitch
        = PitchOf(YINDetect(calls[c].detector[1], calls[c].result[1].waveformData))

\* C3 (as stated): the waveform an analyze call returns is that of its own
\* buffer: the first frames of the stream of its source, then silence.
C3_OwnBufferOnly ==
  \A c \in 1..MaxCalls :
    calls[c].pc = "returned" =>
      LET stream == SourceStream(calls[c].audioBuffer[1])
      IN  calls[c].result[1].waveformData
            = [i \in 1..calls[c].size |-> IF i <= Len(stream) THEN stream[i] ELSE 0]

\* C5 (as stated): no analyze call fails after it has started its source.
C5_NoFailureAfterStart ==
  \A c \in 1..MaxCalls : calls[c].pc # "failed"

\* the results of analyzeSegment and analyzeRealtime carry no advanced record
NoAdvancedFromSynchronous ==
  \A x \in OutcomesOf("analyzeSegment") \cup OutcomesOf("analyzeRealtime") :
    x.result[1].advanced = Null

\* while no setOptions call has been made, enableAdvanced is the default the
\* constructor gave it, and no result carries the advanced record
NoAdvancedByDefault ==
  setCount = 0 =>
    \A c \in 1..MaxCalls :
      calls[c].pc = "returned" => calls[c].result[1].advanced = Null

\* the result an analyze call returns carries the advanced record exactly
\* when enableAdvanced is true as the call resumes
AdvancedIffEnabled ==
  \A c \in 1..MaxCalls :
    calls[c].pc = "awaiting" /\ calls'[c].pc = "returned" =>
      (calls'[c].result[1].advanced # Null <=> options.enableAdvanced)

\* C7: a result carries the advanced record if and only if whole-buffer
\* analyze returned it on an analyzer whose enableAdvanced is true; the
\* results of analyzeSegment and analyzeRealtime never carry it, and neither
\* does any result of an analyzer whose enableAdvanced is still the default.
C7_AdvancedOnlyFromAnalyze ==
  /\ [](NoAdvancedFromSynchronous /\ NoAdvancedByDefault)
  /\ [][AdvancedIffEnabled]_vars

\* enableAdvanced is true, an analyze call has returned a result with the
\* advanced record, and analyzeSegment has returned one as well
C7_Witness ==
  /\ options.enableAdvanced
  /\ \E c \in 1..MaxCalls :
       calls[c].pc = "returned" /\ calls[c].result[1].advanced # Null
  /\ OutcomesOf("analyzeSegment") # {}

====
